---- MODULE Spec2Model ----
(***************************************************************************)
(* Model of src/script.js (Microsite_Reports dashboard).                   *)
(*                                                                         *)
(* The specifications share the variables below:                           *)
(*   Spec         - DashboardManager as an event-driven state machine:     *)
(*                  initialize, refresh click, auto-refresh timer, fetch   *)
(*                  completions, date-range change.                        *)
(*   SpecDegraded - refreshes together with saveToCache, the clock and     *)
(*                  the cache fallback of handleDataLoadError.             *)
(*   SpecCache    - saveToCache / loadFromCache against localStorage with  *)
(*                  a millisecond clock and storage faults.                *)
(*   SpecFilter   - the DataFilter class.                                  *)
(*   SpecFallback - refreshes under a changing date range with the cache   *)
(*                  fallback while the entry is fresh.                     *)
(*   SpecDateFilter, SpecRisk, SpecFillForward, SpecPlanning,              *)
(*   SpecGeographic, SpecTimeline, SpecGrouping, SpecValidator - the       *)
(*                  calculators and utilities, which are pure: the initial *)
(*                  predicate draws the arguments and the action makes the *)
(*                  call.                                                  *)
(*   SpecTimeframe - the timeframe selector and the projectVolume timeline.*)
(*   SpecRetry    - retryOperation, one step per settlement and timer.     *)
(*   SpecState    - the DashboardState class.                              *)
(*   SpecDebounce - a function returned by debounce, its timers and clock. *)
(*   SpecMonitor  - the PerformanceMonitor class, one step per endTimer.   *)
(*                                                                         *)
(* processData is modelled by its planning part; the calculators of the    *)
(* productivity, program and quality parts are not in the source file.     *)
(* Dates are instants counted in hours, so that moment's day granularity   *)
(* is a computation; numbers with a fractional part are exact fractions.   *)
(*                                                                         *)
(* JavaScript runs every handler and the microtasks it queues to           *)
(* completion before the next event is dispatched, so one action is one    *)
(* event (click, timer, promise settlement by the network) together with   *)
(* every continuation it resumes.                                          *)
(***************************************************************************)
EXTENDS Integers, Sequences, FiniteSets, TLC

\* ------------------------------------------------------------------ bounds
MaxLoads == 3        \* loadData invocations that await the network
MaxTimers == 1       \* setInterval timers installed by setupAutoRefresh
MaxTicks == 3        \* clock advances
MaxPuts == 2         \* saveToCache calls
MaxDay == 3          \* days 0..MaxDay that the instants given to the date filters lie in
MaxRecords == 3      \* records in a collection given to a metric calculator
MaxPeriods == 5      \* periods P1..PMaxPeriods of a time series
MaxYears == 2        \* calendar years, from 2024 on, that timeline dates lie in
MaxRetries == 3      \* largest maxRetries given to retryOperation
MaxSubs == 3         \* entries held by this.subscribers of DashboardState
MaxCalls == 3        \* calls of a debounced function
MaxClock == 4        \* time units that pass while a debounced function is in use
MaxEndTimers == 102  \* timers of tracked operations that a PerformanceMonitor is handed back

\* --------------------------------------------------------------- constants
MsPerMinute == 1000 * 60        \* divisor of loadFromCache's age
CacheMinutes == 60              \* loadFromCache: age < 60
HalfHour == 30 * MsPerMinute    \* clock step of Spec
HoursPerDay == 24               \* the unit 'day' of moment, with instants counted in hours

VARIABLES
    awsState,       \* "pending" | "ready" | "failed": initializeAWS promise; this.s3 is set iff "ready"
    listeners,      \* how many times setupEventListeners has registered the handlers
    timers,         \* setInterval timers installed by setupAutoRefresh
    dateRange,      \* this.dateRange, [start, end] in days
    data,           \* this.data
    lastUpdate,     \* this.lastUpdate
    isLoading,      \* this.isLoading
    published,      \* what updateDashboard last handed to the charts
    errorText,      \* text last passed to showError
    loads,          \* loadData invocations: id -> record
    nextLoad,       \* id of the next loadData invocation
    storage,        \* localStorage['dashboardData']
    now,            \* new Date().getTime(), in ms
    ticks,          \* clock advances so far
    lastCall,       \* the cache call made by the last step, with what it returned
    lastPut,        \* history: argument and time of the last saveToCache that stored an entry
    lastAsked,      \* history: argument of the last saveToCache call, stored or not
    puts,           \* saveToCache calls so far
    lastDone,       \* the loadData invocation the last step completed, if it completed one
    filterData,     \* DataFilter: this.data
    filters,        \* DataFilter: this.filters, the Map's entries in insertion order
    applied,        \* DataFilter: what the last apply() returned
    liveKeys,       \* history: keys added and not removed since
    registered,     \* history: for each live key, the predicate last added under it
    lastFilterOp,   \* history: the DataFilter call made by the last step
    calcArgs,       \* the pure function under examination and the arguments it is given
    lastCalc,       \* the call of a pure function made by the last step, with its result
    currentTimeframe, \* this.currentTimeframe
    heldProjects,   \* timeline: this.data.rawData.projectStatus, rows with calendar dates
    timeline,       \* timeline: this.data.processedData.planning.projectVolume.timeline
    chartLabels,    \* timeline: this.charts.projectVolume.data.labels
    retryFrame,     \* retryOperation: where the call stands, with its arguments and locals
    operationCalls, \* retryOperation: how each invocation of operation() settled, in order
    timeouts,       \* retryOperation: the delays handed to setTimeout, in order
    dashboardState, \* DashboardState: this.state
    subscribers,    \* DashboardState: this.subscribers, the Set's entries in insertion order
    released,       \* history: callbacks whose unsubscribe function was called, not subscribed since
    notified,       \* history: the updateState call made by the last step and the callbacks it invoked
    debounced,      \* debounce: the function it returned, with the wait it closed over
    timeout,        \* debounce: the closure's variable timeout, the id of the timer last set
    pendingTimeouts, \* debounce: the timers set and neither fired nor cleared
    clock,          \* debounce: the time, in units of the shortest wait
    burst,          \* history: the last call of the debounced function and the call func last ran for
    ran,            \* history: the invocation of func made by the last step
    metrics,        \* PerformanceMonitor: this.metrics, each list in array order
    recorded,       \* history: how many durations each list was ever pushed
    lastTimer       \* history: the endTimer call made by the last step

dashVars == <<awsState, listeners, timers, dateRange, data, lastUpdate, isLoading,
              published, errorText, loads, nextLoad, storage, now, ticks,
              lastCall, lastPut, lastAsked, puts, lastDone>>

filterVars == <<filterData, filters, applied, liveKeys, registered, lastFilterOp>>

calcVars == <<calcArgs, lastCalc>>

timeframeVars == <<currentTimeframe, heldProjects, timeline, chartLabels>>

retryVars == <<retryFrame, operationCalls, timeouts>>

\* the variables of the components modelled apart from the refresh cycle
stateVars == <<dashboardState, subscribers, released, notified>>

debounceVars == <<debounced, timeout, pendingTimeouts, clock, burst, ran>>

monitorVars == <<metrics, recorded, lastTimer>>

auxVars == <<timeframeVars, retryVars, stateVars, debounceVars, monitorVars>>

\* what the actions of one component leave alone
besideTimeframe == <<dashVars, filterVars, calcVars, retryVars, stateVars, debounceVars, monitorVars>>
besideRetry == <<dashVars, filterVars, calcVars, timeframeVars, stateVars, debounceVars, monitorVars>>
besideState == <<dashVars, filterVars, calcVars, timeframeVars, retryVars, debounceVars, monitorVars>>
besideDebounce == <<dashVars, filterVars, calcVars, timeframeVars, retryVars, stateVars, monitorVars>>
besideMonitor == <<dashVars, filterVars, calcVars, timeframeVars, retryVars, stateVars, debounceVars>>

vars == <<dashVars, filterVars, calcVars, auxVars>>

\* ------------------------------------------------------------ JS values
Null == [tag |-> "null"]
Undefined == [tag |-> "undefined"]
NaN == [tag |-> "NaN"]
Falsy(v) == v.tag \in {"null", "undefined"}

Num(n, d) == [tag |-> "num", num |-> n, den |-> d]

\* ----------------------------------------------------------- input data
\* instants are counted in hours; At(d, h) is hour h of day d
At(d, h) == d * HoursPerDay + h

Rec(d, st, s, c) == [date |-> d, status |-> st, startDate |-> s, completionDate |-> c]

ProjectSets ==
    { << Rec(At(1, 9), "Active", At(1, 9), At(0, 0)),
         Rec(At(3, 17), "Completed", At(1, 9), At(3, 17)) >>,
      << Rec(At(2, 0), "Completed", At(1, 0), At(2, 0)) >> }

IssueSets == { << [date |-> At(2, 8)] >> }

\* the date picker hands over the first instant of the start day and the
\* last instant of the end day
Ranges == { [start |-> At(1, 0), end |-> At(2, 23)], [start |-> At(1, 0), end |-> At(3, 23)] }

\* fetch outcomes of loadExcelFromS3
Pending == [tag |-> "pending"]
Failed == [tag |-> "rejected"]
Rows(rs) == [tag |-> "rows", rows |-> rs]
ProjectOutcomes == {Failed} \cup { Rows(rs) : rs \in ProjectSets }
IssueOutcomes == {Failed} \cup { Rows(rs) : rs \in IssueSets }

\* ----------------------------------------------------- metric derivation
RECURSIVE SumSeq(_)
SumSeq(s) == IF s = << >> THEN 0 ELSE Head(s) + SumSeq(Tail(s))

\* moment(a).diff(moment(b), 'days'): the whole days between two instants,
\* truncated towards zero
diffDays(a, b) ==
    IF a >= b THEN (a - b) \div HoursPerDay ELSE 0 - ((b - a) \div HoursPerDay)

MapDuration(ps) == [k \in 1..Len(ps) |-> diffDays(ps[k].completionDate, ps[k].startDate)]

\* moment: startOf('day') and endOf('day')
startOfDay(t) == (t \div HoursPerDay) * HoursPerDay
endOfDay(t) == startOfDay(t) + HoursPerDay - 1

\* isBetween with moment's default inclusivity '()':
\* t.isAfter(start, 'day') && t.isBefore(end, 'day')
isBetweenExclusive(t, start, end) == start < startOfDay(t) /\ endOfDay(t) < end

\* moment(t).isBetween(start, end, 'day', '[]'):
\* !t.isBefore(start, 'day') && !t.isAfter(end, 'day'), where isBefore
\* compares the end of t's day and isAfter the start of t's day
isBetweenDay(t, start, end) == ~(endOfDay(t) < start) /\ ~(end < startOfDay(t))

filterDataByDateRange(items, range) ==
    SelectSeq(items, LAMBDA item : isBetweenDay(item.date, range.start, range.end))

calculateAverage(numbers) ==
    IF Len(numbers) = 0 THEN NaN ELSE Num(SumSeq(numbers), Len(numbers))

calculateProjectVolume(projects) ==
    [ total |-> Len(projects),
      active |-> Len(SelectSeq(projects, LAMBDA p : p.status = "Active")),
      completed |-> Len(SelectSeq(projects, LAMBDA p : p.status = "Completed")) ]

\* the average taken over every project, completed or not
calculateTurnaroundTimesOfAll(projects) ==
    [ average |-> calculateAverage(MapDuration(projects)) ]

calculateTurnaroundTimes(projects) ==
    LET completedProjects == SelectSeq(projects, LAMBDA p : p.status = "Completed")
    IN [ average |-> calculateAverage(MapDuration(completedProjects)) ]

\* the sum of the values of a function
RECURSIVE SumOver(_)
SumOver(f) ==
    IF DOMAIN f = {} THEN 0
    ELSE LET key == CHOOSE x \in DOMAIN f : TRUE
         IN f[key] + SumOver([x \in DOMAIN f \ {key} |-> f[x]])

\* each share taken of the number of distinct statuses
calculatePercentagesOfKeys(counts) ==
    [ key \in DOMAIN counts |-> Num(counts[key] * 100, Cardinality(DOMAIN counts)) ]

\* (value / total) * 100 for each key, as an exact fraction
calculatePercentages(counts) ==
    LET total == SumOver(counts)
    IN [ key \in DOMAIN counts |-> Num(counts[key] * 100, total) ]

calculateStatusOverview(projects) ==
    LET statuses == { projects[k].status : k \in 1..Len(projects) }
        statusCounts == [ st \in statuses |->
                            Cardinality({ k \in 1..Len(projects) : projects[k].status = st }) ]
    IN [ counts |-> statusCounts,
         percentages |-> calculatePercentages(statusCounts) ]

\* the timeline series of the three calculators are modelled apart, by
\* generateTimelineData
processPlanningMetrics(projectStatus, range) ==
    LET filteredProjects == filterDataByDateRange(projectStatus, range)
    IN [ projectVolume |-> calculateProjectVolume(filteredProjects),
         turnaroundTimes |-> calculateTurnaroundTimes(filteredProjects),
         statusOverview |-> calculateStatusOverview(filteredProjects) ]

processData(projectStatus, issuesReport, range) ==
    [ tag |-> "bundle",
      planning |-> processPlanningMetrics(projectStatus, range) ]

\* -------------------------------------------------------------- this.data
NewData(raw, processed) ==
    [tag |-> "data", rawData |-> raw, processedData |-> processed, own |-> Null]

RawObject(p, i) == [tag |-> "raw", projectStatus |-> p, issuesReport |-> i]

\* this.data = cachedData: a cached {rawData, processedData} object is held
\* as it is; any other object has neither property and keeps its own fields
AsData(c) ==
    IF c.tag = "data" THEN c
    ELSE [tag |-> "data", rawData |-> Undefined, processedData |-> Undefined, own |-> c]

ProcessedOf(d) == d.processedData

\* ------------------------------------------------------------------- JSON
\* JSON.stringify writes NaN as null; every other value of the model is
\* written and parsed back unchanged
ToJsonNumber(n) == IF n.tag = "NaN" THEN Null ELSE n

ToJsonBundle(b) ==
    IF b.tag = "bundle"
    THEN [b EXCEPT !.planning.turnaroundTimes.average = ToJsonNumber(@)]
    ELSE b

ToJson(v) ==
    IF v.tag = "data"
    THEN [v EXCEPT !.processedData = ToJsonBundle(@), !.own = ToJsonBundle(@)]
    ELSE ToJsonBundle(v)

Garbage == [tag |-> "garbage"]          \* a stored string JSON.parse rejects
Entry(ts, d) == [tag |-> "entry", timestamp |-> ts, data |-> d]

\* ------------------------------------------------------- cache management
NoCall == [op |-> "none"]

\* the age test with the boundary included
AgeValidInclusive(t, timestamp) == (t - timestamp) <= CacheMinutes * MsPerMinute

\* age = (now - timestamp) / (1000 * 60); age < 60.  Division by a positive
\* constant keeps the order, so the test is made on the milliseconds.
AgeValid(t, timestamp) == (t - timestamp) < CacheMinutes * MsPerMinute

\* the try block of loadFromCache; readThrows: localStorage.getItem throws
LoadBody(st, t, readThrows) ==
    IF readThrows THEN [threw |-> TRUE, value |-> Undefined]
    ELSE IF Falsy(st) THEN [threw |-> FALSE, value |-> Null]
    ELSE IF st.tag = "garbage" THEN [threw |-> TRUE, value |-> Undefined]
    ELSE IF AgeValid(t, st.timestamp) THEN [threw |-> FALSE, value |-> st.data]
    ELSE [threw |-> FALSE, value |-> Null]

\* loadFromCache without its catch block
loadFromCacheUncaught(st, t, readThrows) ==
    LET body == LoadBody(st, t, readThrows)
    IN [escaped |-> body.threw, value |-> body.value]

loadFromCache(st, t, readThrows) ==
    LET body == LoadBody(st, t, readThrows)
    IN IF body.threw
       THEN [escaped |-> FALSE, value |-> Null]
       ELSE [escaped |-> FALSE, value |-> body.value]

\* the storage after saveToCache; writeThrows: localStorage.setItem throws
StoreBody(st, t, x, writeThrows) ==
    IF writeThrows THEN [threw |-> TRUE, storage |-> st]
    ELSE [threw |-> FALSE, storage |-> Entry(t, ToJson(x))]

saveToCache(st, t, x, writeThrows) ==
    LET body == StoreBody(st, t, x, writeThrows)
    IN [escaped |-> FALSE, storage |-> body.storage, stored |-> ~body.threw]

\* ------------------------------------------------------------ DataFilter
Item(d, st, rg) == [date |-> d, status |-> st, region |-> rg]

Items ==
    << Item(At(1, 9), "Active", "EU"), Item(At(2, 0), "Completed", "US"),
       Item(At(3, 17), "Completed", "EU") >>

\* predicates built by createStatusFilter, createRegionFilter and
\* createDateRangeFilter
StatusFilter(statuses) == [kind |-> "status", statuses |-> statuses]
RegionFilter(regions) == [kind |-> "region", regions |-> regions]
DateRangeFilter(start, end) == [kind |-> "dateRange", start |-> start, end |-> end]

Holds(predicate, item) ==
    CASE predicate.kind = "status" -> item.status \in predicate.statuses
      [] predicate.kind = "region" -> item.region \in predicate.regions
      [] predicate.kind = "dateRange" -> isBetweenDay(item.date, predicate.start, predicate.end)

FilterKeys == {"dateRange", "status", "region"}

Predicates ==
    { StatusFilter({"Active"}), StatusFilter({"Completed"}),
      RegionFilter({"EU"}), DateRangeFilter(At(1, 12), At(2, 12)) }

HasKey(m, key) == \E n \in 1..Len(m) : m[n].key = key

\* Map.prototype.set: an existing key keeps its place and takes the new value
MapSet(m, key, value) ==
    IF HasKey(m, key)
    THEN [n \in 1..Len(m) |-> IF m[n].key = key THEN [key |-> key, value |-> value] ELSE m[n]]
    ELSE Append(m, [key |-> key, value |-> value])

MapDelete(m, key) == SelectSeq(m, LAMBDA e : e.key # key)

\* registration that keeps every predicate ever added
addFilterCumulative(m, key, predicate) == Append(m, [key |-> key, value |-> predicate])

addFilter(m, key, predicate) == MapSet(m, key, predicate)

removeFilter(m, key) == MapDelete(m, key)

clearFilters(m) == << >>

\* a record passes as soon as one predicate holds
applyAny(m, items) ==
    SelectSeq(items, LAMBDA item : \E n \in 1..Len(m) : Holds(m[n].value, item))

apply(m, items) ==
    SelectSeq(items, LAMBDA item : \A n \in 1..Len(m) : Holds(m[n].value, item))

AddFilter(key, predicate) ==
    /\ filters' = addFilter(filters, key, predicate)
    /\ liveKeys' = liveKeys \cup {key}
    /\ registered' = { e \in registered : e.key # key } \cup {[key |-> key, value |-> predicate]}
    /\ lastFilterOp' = [op |-> "add", key |-> key,
                        replaced |-> \E n \in 1..Len(filters) :
                                        filters[n].key = key /\ filters[n].value # predicate]
    /\ UNCHANGED <<filterData, applied>>
    /\ UNCHANGED <<dashVars, calcVars, auxVars>>

RemoveFilter(key) ==
    /\ filters' = removeFilter(filters, key)
    /\ liveKeys' = liveKeys \ {key}
    /\ registered' = { e \in registered : e.key # key }
    /\ lastFilterOp' = [op |-> "remove", key |-> key]
    /\ UNCHANGED <<filterData, applied>>
    /\ UNCHANGED <<dashVars, calcVars, auxVars>>

ClearFilters ==
    /\ filters' = clearFilters(filters)
    /\ liveKeys' = {}
    /\ registered' = {}
    /\ lastFilterOp' = [op |-> "clear"]
    /\ UNCHANGED <<filterData, applied>>
    /\ UNCHANGED <<dashVars, calcVars, auxVars>>

Apply ==
    /\ applied' = apply(filters, filterData)
    /\ lastFilterOp' = [op |-> "apply"]
    /\ UNCHANGED <<filterData, filters, liveKeys, registered>>
    /\ UNCHANGED <<dashVars, calcVars, auxVars>>

\* ------------------------------------------------------ DashboardManager
LoadError == "Failed to load data from server"
CachedWarning == "Showing cached data due to loading error"
HandlerError == "Failed to load data"

LoadIds == 1..MaxLoads

Unused == [state |-> "unused"]
\* a loadData invocation that has run to its end, with how its Promise.all settled
Settled(outcome) == [state |-> "settled", outcome |-> outcome]
NoCompletion == [outcome |-> "none"]

Snapshot == [data |-> data, lastUpdate |-> lastUpdate]

NewLoad(kind) ==
    [state |-> "inflight", kind |-> kind, p |-> Pending, i |-> Pending,
     processed |-> FALSE, before |-> Snapshot]

InFlight == { r \in LoadIds : loads[r].state = "inflight" }

\* updateDashboard: nothing is rendered unless this.data.processedData is set
updateDashboard(d, shown) ==
    IF Falsy(ProcessedOf(d)) THEN shown ELSE ProcessedOf(d)

\* how many times one updateDashboard call hands each sub-metric of the
\* current tab to its chart: updatePlanningDashboard calls every update
\* method once, and nothing is rendered while no bundle is held
Renders(d) == IF Falsy(ProcessedOf(d)) THEN 0 ELSE 1

\* a join that lets the continuation run on the first fulfilled fetch
anyFulfilled(l) == l.p.tag = "rows" \/ l.i.tag = "rows"

\* Promise.all of the two loadExcelFromS3 promises
allFulfilled(l) == l.p.tag = "rows" /\ l.i.tag = "rows"

RowsOf(o) == IF o.tag = "rows" THEN o.rows ELSE << >>

CacheUsable == ~Falsy(loadFromCache(storage, now, FALSE).value)

\* history record of a loadData invocation l that has just completed and
\* leaves the held data as `after`
Completion(r, l, outcome, after) ==
    [ id |-> r, kind |-> l.kind, outcome |-> outcome,
      p |-> l.p.tag, i |-> l.i.tag,
      processed |-> l.processed,
      intact |-> after = l.before,      \* held data as when the invocation started
      wrote |-> after # Snapshot,       \* this completion changed the held data
      \* updateDashboard at the end of loadData's try block, then the one
      \* loadInitialData makes after its await
      renders |-> (IF outcome = "fulfilled" THEN Renders(after.data) ELSE 0)
                     + (IF l.kind = "initial" THEN Renders(after.data) ELSE 0),
      cacheUsable |-> CacheUsable,
      others |-> InFlight \ {r} ]

\* loadData called while this.s3 is undefined: getObject throws inside
\* loadExcelFromS3, Promise.all rejects and the catch and finally blocks run
\* before any other event; kind "initial" adds the tail of loadInitialData
FailAtOnce(kind) ==
    /\ errorText' = LoadError
    /\ isLoading' = FALSE
    /\ published' = IF kind = "initial" THEN updateDashboard(data, published) ELSE published
    /\ lastDone' = Completion(0, NewLoad(kind), "rejected", Snapshot)
    /\ UNCHANGED <<loads, nextLoad>>

\* n calls of loadData in one task with this.s3 set: each runs showLoading,
\* starts its two fetches and suspends at the await
Suspend(n, kind) ==
    /\ nextLoad + n - 1 <= MaxLoads
    /\ loads' = [r \in LoadIds |->
                    IF r >= nextLoad /\ r < nextLoad + n THEN NewLoad(kind) ELSE loads[r]]
    /\ nextLoad' = nextLoad + n
    /\ isLoading' = TRUE
    /\ lastDone' = NoCompletion
    /\ UNCHANGED <<errorText, published>>

StartLoads(n, kind) ==
    IF awsState = "ready" THEN Suspend(n, kind) ELSE FailAtOnce(kind)

\* initialize(): initializeAWS resolves, the components and listeners are set
\* up a second time and loadInitialData starts
InitializeResolve ==
    /\ awsState = "pending"
    /\ awsState' = "ready"
    /\ listeners' = listeners + 1
    /\ Suspend(1, "initial")
    /\ lastCall' = NoCall
    /\ UNCHANGED <<timers, dateRange, data, lastUpdate, storage, now, ticks,
                   lastPut, lastAsked, puts>>
    /\ UNCHANGED <<filterVars, calcVars, auxVars>>

InitializeReject ==
    /\ awsState = "pending"
    /\ awsState' = "failed"
    /\ lastCall' = NoCall
    /\ UNCHANGED <<listeners, timers, dateRange, data, lastUpdate, isLoading,
                   published, errorText, loads, nextLoad, storage, now, ticks,
                   lastPut, lastAsked, puts>>
    /\ lastDone' = NoCompletion
    /\ UNCHANGED <<filterVars, calcVars, auxVars>>

\* initializeDashboard(): listeners once more, loadInitialData, setupAutoRefresh
InitializeDashboard ==
    /\ timers < MaxTimers
    /\ listeners' = listeners + 1
    /\ timers' = timers + 1
    /\ StartLoads(1, "initial")
    /\ lastCall' = NoCall
    /\ UNCHANGED <<awsState, dateRange, data, lastUpdate, storage, now, ticks,
                   lastPut, lastAsked, puts>>
    /\ UNCHANGED <<filterVars, calcVars, auxVars>>

\* click on #refresh-data: every registered listener calls loadData
RefreshClick ==
    /\ StartLoads(listeners, "loadData")
    /\ lastCall' = NoCall
    /\ UNCHANGED <<awsState, listeners, timers, dateRange, data, lastUpdate,
                   storage, now, ticks, lastPut, lastAsked, puts>>
    /\ UNCHANGED <<filterVars, calcVars, auxVars>>

\* the setInterval callback of setupAutoRefresh
TimerFire ==
    /\ timers > 0
    /\ StartLoads(1, "loadData")
    /\ lastCall' = NoCall
    /\ UNCHANGED <<awsState, listeners, timers, dateRange, data, lastUpdate,
                   storage, now, ticks, lastPut, lastAsked, puts>>
    /\ UNCHANGED <<filterVars, calcVars, auxVars>>

\* the continuation of loadData after the await, when Promise.all fulfilled
LoadSucceeds(r, l) ==
    LET projectStatus == RowsOf(l.p)
        issuesReport == RowsOf(l.i)
        loaded == [data EXCEPT
                     !.rawData = RawObject(projectStatus, issuesReport),
                     !.processedData = processData(projectStatus, issuesReport, dateRange)]
    IN /\ data' = loaded
       /\ lastUpdate' = [tag |-> "date", ms |-> now]
       /\ published' = updateDashboard(loaded, published)
       /\ isLoading' = FALSE
       /\ loads' = [loads EXCEPT ![r] = Settled("fulfilled")]
       /\ lastDone' = Completion(r, [l EXCEPT !.processed = TRUE], "fulfilled",
                                   [data |-> loaded, lastUpdate |-> [tag |-> "date", ms |-> now]])
       /\ UNCHANGED errorText

\* the catch and finally blocks of loadData, when Promise.all rejected
LoadFails(r, l) ==
    /\ errorText' = LoadError
    /\ isLoading' = FALSE
    /\ published' = IF l.kind = "initial" THEN updateDashboard(data, published) ELSE published
    /\ loads' = [loads EXCEPT ![r] = Settled("rejected")]
    /\ lastDone' = Completion(r, l, "rejected", Snapshot)
    /\ UNCHANGED <<data, lastUpdate>>

\* one loadExcelFromS3 promise of invocation r settles; f is "p" for
\* MS_Project_Status.xlsx and "i" for MS_Issues_Report.xlsx.  A fetch that
\* settles after Promise.all has rejected has no effect and is not modelled.
FetchComplete(r, f, out) ==
    /\ loads[r].state = "inflight"
    /\ loads[r][f] = Pending
    /\ LET l == [loads[r] EXCEPT ![f] = out]
       IN IF out = Failed THEN LoadFails(r, l)
          ELSE IF allFulfilled(l) THEN LoadSucceeds(r, l)
          ELSE /\ loads' = [loads EXCEPT ![r] = l]
               /\ lastDone' = NoCompletion
               /\ UNCHANGED <<data, lastUpdate, published, isLoading, errorText>>
    /\ lastCall' = NoCall
    /\ UNCHANGED <<awsState, listeners, timers, dateRange, nextLoad, storage, now,
                   ticks, lastPut, lastAsked, puts>>
    /\ UNCHANGED <<filterVars, calcVars, auxVars>>

\* the daterangepicker callback
DateRangeChange(range) ==
    /\ dateRange' = range
    /\ published' = updateDashboard(data, published)
    /\ lastCall' = NoCall
    /\ UNCHANGED <<awsState, listeners, timers, data, lastUpdate, isLoading,
                   errorText, loads, nextLoad, storage, now, ticks, lastPut,
                   lastAsked, puts>>
    /\ lastDone' = NoCompletion
    /\ UNCHANGED <<filterVars, calcVars, auxVars>>

\* handleDataLoadError(error)
HandleDataLoadError(readThrows) ==
    LET call == loadFromCache(storage, now, readThrows)
        cachedData == call.value
    IN /\ lastCall' = [op |-> "get", fault |-> readThrows,
                        escaped |-> call.escaped, value |-> call.value]
       /\ IF ~Falsy(cachedData)
          THEN /\ data' = AsData(cachedData)
               /\ published' = updateDashboard(AsData(cachedData), published)
               /\ errorText' = CachedWarning
          ELSE /\ errorText' = HandlerError
               /\ UNCHANGED <<data, published>>
       /\ UNCHANGED <<awsState, listeners, timers, dateRange, lastUpdate, isLoading,
                      loads, nextLoad, storage, now, ticks, lastPut, lastAsked, puts>>
       /\ lastDone' = NoCompletion
       /\ UNCHANGED <<filterVars, calcVars, auxVars>>

\* saveToCache(x)
SaveToCache(x, writeThrows) ==
    LET call == saveToCache(storage, now, x, writeThrows)
    IN /\ puts < MaxPuts
       /\ storage' = call.storage
       /\ lastCall' = [op |-> "put", fault |-> writeThrows, escaped |-> call.escaped]
       /\ lastAsked' = x
       /\ lastPut' = IF call.stored THEN [tag |-> "put", value |-> x, at |-> now] ELSE lastPut
       /\ puts' = puts + 1
       /\ UNCHANGED <<awsState, listeners, timers, dateRange, data, lastUpdate,
                      isLoading, published, errorText, loads, nextLoad, now, ticks>>
       /\ lastDone' = NoCompletion
       /\ UNCHANGED <<filterVars, calcVars, auxVars>>

\* loadFromCache()
LoadFromCache(readThrows) ==
    /\ LET call == loadFromCache(storage, now, readThrows)
       IN lastCall' = [op |-> "get", fault |-> readThrows,
                       escaped |-> call.escaped, value |-> call.value]
    /\ UNCHANGED <<awsState, listeners, timers, dateRange, data, lastUpdate,
                   isLoading, published, errorText, loads, nextLoad, storage, now,
                   ticks, lastPut, lastAsked, puts>>
    /\ lastDone' = NoCompletion
    /\ UNCHANGED <<filterVars, calcVars, auxVars>>

\* time passes
Tick(d) ==
    /\ ticks < MaxTicks
    /\ ticks' = ticks + 1
    /\ now' = now + d
    /\ lastCall' = NoCall
    /\ UNCHANGED <<awsState, listeners, timers, dateRange, data, lastUpdate,
                   isLoading, published, errorText, loads, nextLoad, storage,
                   lastPut, lastAsked, puts>>
    /\ lastDone' = NoCompletion
    /\ UNCHANGED <<filterVars, calcVars, auxVars>>

\* what saveToCache is called with: this.data, or the processed bundle
CacheArgs ==
    IF Falsy(ProcessedOf(data)) THEN {} ELSE {data, ProcessedOf(data)}

\* the keys of PerformanceMonitor's this.metrics
TrackedOperations == {"renderTimes", "dataProcessingTimes", "loadTimes"}

\* the components modelled apart, as constructed
InitAux ==
    /\ currentTimeframe = "monthly"
    /\ heldProjects = Null
    /\ timeline = Null
    /\ chartLabels = << >>
    /\ retryFrame = [phase |-> "idle"]
    /\ operationCalls = << >>
    /\ timeouts = << >>
    /\ dashboardState = [currentTab |-> "planning", timeframe |-> "monthly"]
    /\ subscribers = << >>
    /\ released = {}
    /\ notified = [op |-> "none"]
    /\ debounced = Null
    /\ timeout = Undefined
    /\ pendingTimeouts = {}
    /\ clock = 0
    /\ burst = [seq |-> 0, served |-> 0]
    /\ ran = [op |-> "none"]
    /\ metrics = [list \in TrackedOperations |-> << >>]
    /\ recorded = [list \in TrackedOperations |-> 0]
    /\ lastTimer = [op |-> "none"]

\* the state once the constructor has returned: its loadInitialData call has
\* already failed because this.s3 is still undefined, and initialize() waits
\* for the credentials
InitDashboard ==
    /\ awsState = "pending"
    /\ listeners = 1
    /\ timers = 0
    /\ dateRange = [start |-> At(1, 12), end |-> At(3, 12)]
    /\ data = NewData(Null, Null)
    /\ lastUpdate = Null
    /\ isLoading = FALSE
    /\ published = Null
    /\ errorText = LoadError
    /\ loads = [r \in LoadIds |-> Unused]
    /\ nextLoad = 1
    /\ storage = Null
    /\ now = 0
    /\ ticks = 0
    /\ lastCall = NoCall
    /\ lastPut = Null
    /\ lastAsked = Null
    /\ puts = 0
    /\ lastDone = NoCompletion
    /\ filterData = Items
    /\ filters = << >>
    /\ applied = Items
    /\ liveKeys = {}
    /\ registered = {}
    /\ lastFilterOp = [op |-> "none"]
    /\ InitAux

Init ==
    /\ InitDashboard
    /\ calcArgs = [op |-> "none"]
    /\ lastCalc = [op |-> "none"]

Next ==
    \/ InitializeResolve
    \/ InitializeReject
    \/ InitializeDashboard
    \/ RefreshClick
    \/ TimerFire
    \/ \E r \in LoadIds, out \in ProjectOutcomes : FetchComplete(r, "p", out)
    \/ \E r \in LoadIds, out \in IssueOutcomes : FetchComplete(r, "i", out)
    \/ \E range \in Ranges : DateRangeChange(range)

Spec == Init /\ [][Next]_vars

\* refreshes together with the cache: saveToCache, the clock, and the
\* fallback of handleDataLoadError
NextDegraded ==
    \/ InitializeResolve
    \/ InitializeReject
    \/ RefreshClick
    \/ \E r \in LoadIds, out \in ProjectOutcomes : FetchComplete(r, "p", out)
    \/ \E r \in LoadIds, out \in IssueOutcomes : FetchComplete(r, "i", out)
    \/ \E x \in CacheArgs : SaveToCache(x, FALSE)
    \/ HandleDataLoadError(FALSE)
    \/ Tick(HalfHour)

SpecDegraded == Init /\ [][NextDegraded]_vars

\* refreshes under a changing date range, with saveToCache and the fallback
\* of handleDataLoadError while the cache entry is fresh
NextFallback ==
    \/ InitializeResolve
    \/ RefreshClick
    \/ \E r \in LoadIds, out \in ProjectOutcomes : FetchComplete(r, "p", out)
    \/ \E r \in LoadIds, out \in IssueOutcomes : FetchComplete(r, "i", out)
    \/ \E range \in Ranges : DateRangeChange(range)
    \/ \E x \in CacheArgs : SaveToCache(x, FALSE)
    \/ HandleDataLoadError(FALSE)

SpecFallback == Init /\ [][NextFallback]_vars

\* ------------------------------------------------------------ SpecCache
\* the bundles saveToCache is given: every bundle processData can produce
CacheInputs ==
    { processData(ps, is, range) : ps \in ProjectSets, is \in IssueSets, range \in Ranges }

FineSteps == {1, 999, 1000, 3599000}

\* another script of the page's origin leaves an unparsable string under
\* the key
CorruptEntry ==
    /\ storage # Garbage
    /\ storage' = Garbage
    /\ lastPut' = Null
    /\ lastAsked' = Null
    /\ lastCall' = NoCall
    /\ lastDone' = NoCompletion
    /\ UNCHANGED <<awsState, listeners, timers, dateRange, data, lastUpdate,
                   isLoading, published, errorText, loads, nextLoad, now, ticks,
                   puts>>
    /\ UNCHANGED <<filterVars, calcVars, auxVars>>

NextCache ==
    \/ \E x \in CacheInputs, writeThrows \in BOOLEAN : SaveToCache(x, writeThrows)
    \/ \E readThrows \in BOOLEAN : LoadFromCache(readThrows)
    \/ CorruptEntry
    \/ \E d \in FineSteps : Tick(d)

SpecCache == Init /\ [][NextCache]_vars

\* ----------------------------------------------------------- SpecFilter
NextFilter ==
    \/ \E key \in FilterKeys, predicate \in Predicates : AddFilter(key, predicate)
    \/ \E key \in FilterKeys : RemoveFilter(key)
    \/ ClearFilters
    \/ Apply

SpecFilter == Init /\ [][NextFilter]_vars

\* ------------------------------------------------------- pure helpers
\* the calculators and utilities, each called on arguments drawn from
\* bounded sets
\* the first hour, a midday hour and the last hour of the days 0..MaxDay
Instants == { At(d, h) : d \in 0..MaxDay, h \in {0, 11, HoursPerDay - 1} }

\* filterDataByDateRange(data) on a collection of one record, with
\* this.dateRange = {start, end}
FilterDataByDateRange ==
    /\ calcArgs.op = "filterDataByDateRange"
    /\ lastCalc' = [op |-> calcArgs.op, date |-> calcArgs.date,
                    start |-> calcArgs.start, end |-> calcArgs.end,
                    passes |-> filterDataByDateRange(<< [date |-> calcArgs.date] >>,
                                   [start |-> calcArgs.start, end |-> calcArgs.end]) # << >>]
    /\ UNCHANGED <<dashVars, filterVars, calcArgs, auxVars>>

\* DataFilter.createDateRangeFilter(start, end)(item)
CreateDateRangeFilter ==
    /\ calcArgs.op = "createDateRangeFilter"
    /\ lastCalc' = [op |-> calcArgs.op, date |-> calcArgs.date,
                    start |-> calcArgs.start, end |-> calcArgs.end,
                    passes |-> Holds(DateRangeFilter(calcArgs.start, calcArgs.end),
                                     Item(calcArgs.date, "Active", "EU"))]
    /\ UNCHANGED <<dashVars, filterVars, calcArgs, auxVars>>

\* ------------------------------------------------------------ risk
\* numbers with a fractional part are kept as exact fractions Num(n, d)
AtLeast(x, k) == x.num >= k * x.den

Factors == << "timeline", "budget", "complexity", "dependencies", "resources" >>

\* weights with the timeline factor overweighted
WeightsSkewed ==
    [ timeline |-> 35, budget |-> 25, complexity |-> 20, dependencies |-> 15, resources |-> 10 ]

\* the weights 0.3, 0.25, 0.2, 0.15, 0.1, in hundredths
Weights ==
    [ timeline |-> 30, budget |-> 25, complexity |-> 20, dependencies |-> 15, resources |-> 10 ]

\* calculateTimelineRisk, calculateBudgetRisk, evaluateComplexity,
\* evaluateDependencies and evaluateResourceRisk are not in the source file;
\* each returns a sub-score in [0, 100], carried here by the project record
factorScore(project, factor) == project.risk[factor]

calculateProjectRiskScore(project) ==
    LET scores == [ factor \in DOMAIN Weights |-> factorScore(project, factor) ]
    IN Num(SumSeq([k \in 1..Len(Factors) |-> scores[Factors[k]] * Weights[Factors[k]]]), 100)

\* the bands with their lower ends left out
calculateRiskMetricsStrict(projects) ==
    LET score(k) == calculateProjectRiskScore(projects[k])
        high == { k \in 1..Len(projects) : score(k).num > 75 * score(k).den }
        medium == { k \in 1..Len(projects) : k \notin high /\ score(k).num > 40 * score(k).den }
    IN [ riskDistribution |->
           [ high |-> Cardinality(high), medium |-> Cardinality(medium),
             low |-> Len(projects) - Cardinality(high) - Cardinality(medium) ] ]

\* riskTrend and topRiskFactors come from methods that are not in the
\* source file and are left out
calculateRiskMetrics(projects) ==
    LET score(k) == calculateProjectRiskScore(projects[k])
        high == { k \in 1..Len(projects) : AtLeast(score(k), 75) }
        medium == { k \in 1..Len(projects) : k \notin high /\ AtLeast(score(k), 40) }
        low == { k \in 1..Len(projects) : k \notin high /\ k \notin medium }
    IN [ riskDistribution |->
           [ high |-> Cardinality(high), medium |-> Cardinality(medium),
             low |-> Cardinality(low) ] ]

SubScoreValues == {0, 39, 40, 41, 74, 75, 76, 100}

RiskProject(t, b, c, d, r) ==
    [ risk |-> [ timeline |-> t, budget |-> b, complexity |-> c,
                 dependencies |-> d, resources |-> r ] ]

RiskProjects ==
    { RiskProject(t, b, c, d, r) :
        t \in SubScoreValues, b \in SubScoreValues, c \in SubScoreValues,
        d \in SubScoreValues, r \in SubScoreValues }

\* projects scoring 75, 74.95, 40, 39.95, 0 and 100
RiskSamples ==
    { RiskProject(75, 75, 75, 75, 75), RiskProject(75, 75, 74, 76, 75),
      RiskProject(40, 40, 40, 40, 40), RiskProject(40, 40, 39, 41, 40),
      RiskProject(0, 0, 0, 0, 0), RiskProject(100, 100, 100, 100, 100) }

\* the sequences of 1..MaxRecords elements of a set
SeqsOf(S) == UNION { [1..n -> S] : n \in 1..MaxRecords }

CalculateProjectRiskScore ==
    /\ calcArgs.op = "calculateProjectRiskScore"
    /\ lastCalc' = [op |-> calcArgs.op, project |-> calcArgs.project,
                    out |-> calculateProjectRiskScore(calcArgs.project)]
    /\ UNCHANGED <<dashVars, filterVars, calcArgs, auxVars>>

CalculateRiskMetrics ==
    /\ calcArgs.op = "calculateRiskMetrics"
    /\ lastCalc' = [op |-> calcArgs.op, projects |-> calcArgs.projects,
                    scores |-> [k \in 1..Len(calcArgs.projects) |->
                                   calculateProjectRiskScore(calcArgs.projects[k])],
                    out |-> calculateRiskMetrics(calcArgs.projects)]
    /\ UNCHANGED <<dashVars, filterVars, calcArgs, auxVars>>

\* ------------------------------------------------------ DashboardUtils
\* data.find(d => d.date === slot): the index of the first match, 0 if none
FindByDate(sparse, slot) ==
    IF \E n \in 1..Len(sparse) : sparse[n].date = slot
    THEN CHOOSE n \in 1..Len(sparse) :
            /\ sparse[n].date = slot
            /\ \A m \in 1..(n - 1) : sparse[m].date # slot
    ELSE 0

\* the forEach of interpolateMissingValues from slot k on
RECURSIVE FillFrom(_, _, _, _, _)
FillFrom(sparse, timeSlots, k, lastValue, carry) ==
    IF k > Len(timeSlots) THEN << >>
    ELSE LET n == FindByDate(sparse, timeSlots[k])
             value == IF n # 0 THEN sparse[n].value ELSE IF carry THEN lastValue ELSE 0
         IN << [date |-> timeSlots[k], value |-> value] >>
                \o FillFrom(sparse, timeSlots, k + 1, value, carry)

\* a slot without a row gets 0 instead of the value carried forward
interpolateWithoutCarry(sparse, timeSlots) == FillFrom(sparse, timeSlots, 1, 0, FALSE)

interpolateMissingValues(sparse, timeSlots) == FillFrom(sparse, timeSlots, 1, 0, TRUE)

\* the period lists first..last
TimeSlotLists ==
    { [k \in 1..(last - first + 1) |-> first + k - 1] :
        first \in 1..MaxPeriods, last \in 1..MaxPeriods } \ { << >> }

\* the rows of a sparse series, by period, at most one per period, with
\* the values 10 and 20
RECURSIVE RowsFrom(_, _)
RowsFrom(series, p) ==
    IF p > MaxPeriods THEN << >>
    ELSE (IF series[p] = 0 THEN << >> ELSE << [date |-> p, value |-> series[p]] >>)
            \o RowsFrom(series, p + 1)

SparseSeries == { RowsFrom(series, 1) : series \in [1..MaxPeriods -> {0, 10, 20}] }

InterpolateMissingValues ==
    /\ calcArgs.op = "interpolateMissingValues"
    /\ lastCalc' = [op |-> calcArgs.op, data |-> calcArgs.data,
                    timeSlots |-> calcArgs.timeSlots,
                    out |-> interpolateMissingValues(calcArgs.data, calcArgs.timeSlots)]
    /\ UNCHANGED <<dashVars, filterVars, calcArgs, auxVars>>

\* ------------------------------------------------------ planning calls
\* project rows: an open one, three completed after 1, 2 and 3 days, one
\* on hold, and a completed one dated outside the ranges
PlanningRecords ==
    { Rec(At(1, 9), "Active", At(1, 0), At(0, 0)),
      Rec(At(2, 0), "Completed", At(1, 0), At(2, 0)),
      Rec(At(3, 17), "Completed", At(1, 0), At(3, 0)),
      Rec(At(1, 0), "Completed", At(0, 0), At(3, 0)),
      Rec(At(2, 11), "On Hold", At(2, 0), At(0, 0)),
      Rec(At(5, 0), "Completed", At(1, 0), At(5, 0)) }

CalculateTurnaroundTimes ==
    /\ calcArgs.op = "calculateTurnaroundTimes"
    /\ lastCalc' = [op |-> calcArgs.op, projects |-> calcArgs.projects,
                    out |-> calculateTurnaroundTimes(calcArgs.projects)]
    /\ UNCHANGED <<dashVars, filterVars, calcArgs, auxVars>>

CalculateStatusOverview ==
    /\ calcArgs.op = "calculateStatusOverview"
    /\ lastCalc' = [op |-> calcArgs.op, projects |-> calcArgs.projects,
                    out |-> calculateStatusOverview(calcArgs.projects)]
    /\ UNCHANGED <<dashVars, filterVars, calcArgs, auxVars>>

\* processPlanningMetrics(projectStatus, issuesReport) with
\* this.dateRange = range
ProcessPlanningMetrics ==
    /\ calcArgs.op = "processPlanningMetrics"
    /\ lastCalc' = [op |-> calcArgs.op, projects |-> calcArgs.projects,
                    range |-> calcArgs.range,
                    out |-> processPlanningMetrics(calcArgs.projects, calcArgs.range)]
    /\ UNCHANGED <<dashVars, filterVars, calcArgs, auxVars>>

\* ------------------------------------------------------------ geography
Infinity(sign) == [tag |-> "Infinity", sign |-> sign]
Cell(n) == [tag |-> "int", v |-> n]

\* parseFloat(x || 0) for a cell that is empty or holds a whole number
parseFloatOrZero(c) == IF c.tag = "int" THEN c.v ELSE 0

\* (n / d) * 100 in floating point: a zero divisor gives NaN or an infinity
PercentOf(n, d) ==
    IF d # 0 THEN Num(n * 100, d)
    ELSE IF n = 0 THEN NaN
    ELSE IF n > 0 THEN Infinity(1) ELSE Infinity(0 - 1)

\* the regions in the order of their first row (the key order of regionData)
RECURSIVE RegionOrder(_, _)
RegionOrder(projects, seen) ==
    IF projects = << >> THEN << >>
    ELSE IF Head(projects).region \in seen THEN RegionOrder(Tail(projects), seen)
    ELSE << Head(projects).region >>
            \o RegionOrder(Tail(projects), seen \cup {Head(projects).region})

\* regionData[region] once the forEach has run
RegionTotals(projects, region) ==
    LET rows == SelectSeq(projects, LAMBDA p : p.region = region)
    IN [ totalProjects |-> Len(rows),
         successfulProjects |->
            Len(SelectSeq(rows, LAMBDA p : p.status = "Completed" /\ p.qualityScore >= 90)),
         onTimeDelivery |->
            Len(SelectSeq(rows, LAMBDA p : p.deliveryDate <= p.plannedDeliveryDate)),
         totalBudget |-> SumSeq([k \in 1..Len(rows) |-> parseFloatOrZero(rows[k].plannedBudget)]),
         actualCost |-> SumSeq([k \in 1..Len(rows) |-> parseFloatOrZero(rows[k].actualCost)]) ]

processGeographicData(projects) ==
    LET order == RegionOrder(projects, {})
    IN [ k \in 1..Len(order) |->
           LET totals == RegionTotals(projects, order[k])
           IN [ region |-> order[k],
                successRate |-> PercentOf(totals.successfulProjects, totals.totalProjects),
                onTimeRate |-> PercentOf(totals.onTimeDelivery, totals.totalProjects),
                budgetVariance |-> PercentOf(totals.actualCost - totals.totalBudget,
                                             totals.totalBudget),
                projectVolume |-> totals.totalProjects ] ]

GeoRecord(region, st, quality, delivery, planned, budget, cost) ==
    [ region |-> region, status |-> st, qualityScore |-> quality,
      deliveryDate |-> delivery, plannedDeliveryDate |-> planned,
      plannedBudget |-> budget, actualCost |-> cost ]

GeoRecords ==
    { GeoRecord("EU", "Completed", 95, 2, 3, Cell(100), Cell(120)),
      GeoRecord("EU", "Active", 50, 4, 3, Cell(0), Cell(0)),
      GeoRecord("EU", "Completed", 80, 3, 3, Undefined, Cell(40)),
      GeoRecord("US", "Completed", 90, 1, 1, Cell(200), Cell(150)),
      GeoRecord("US", "Active", 70, 5, 2, Cell(0), Cell(30)),
      GeoRecord("US", "On Hold", 10, 2, 2, Undefined, Undefined) }

ProcessGeographicData ==
    /\ calcArgs.op = "processGeographicData"
    /\ lastCalc' = [op |-> calcArgs.op, projects |-> calcArgs.projects,
                    out |-> processGeographicData(calcArgs.projects)]
    /\ UNCHANGED <<dashVars, filterVars, calcArgs, auxVars>>

\* ------------------------------------------------------------- timeline
\* calendar dates [y, m, d] of the Gregorian calendar
IsLeap(y) == (y % 4 = 0 /\ y % 100 # 0) \/ y % 400 = 0

DaysInMonth(y, m) ==
    IF m = 2 THEN (IF IsLeap(y) THEN 29 ELSE 28)
    ELSE IF m \in {4, 6, 9, 11} THEN 30 ELSE 31

RECURSIVE DaysBeforeMonth(_, _)
DaysBeforeMonth(y, m) ==
    IF m = 1 THEN 0 ELSE DaysBeforeMonth(y, m - 1) + DaysInMonth(y, m - 1)

DayOfYear(date) == DaysBeforeMonth(date.y, date.m) + date.d

\* days from 0001-01-01, a Monday, to January 1st of year y
DaysBeforeYear(y) ==
    365 * (y - 1) + ((y - 1) \div 4) - ((y - 1) \div 100) + ((y - 1) \div 400)

\* 1 = Monday .. 7 = Sunday
IsoWeekday(date) == ((DaysBeforeYear(date.y) + DayOfYear(date) - 1) % 7) + 1

\* a year has 53 ISO weeks when it starts on a Thursday, or on a Wednesday
\* and is a leap year
IsoWeeksInYear(y) ==
    LET first == IsoWeekday([y |-> y, m |-> 1, d |-> 1])
    IN IF first = 4 \/ (first = 3 /\ IsLeap(y)) THEN 53 ELSE 52

\* moment token WW: the ISO week of the year
IsoWeek(date) ==
    LET w == (DayOfYear(date) - IsoWeekday(date) + 10) \div 7
    IN IF w < 1 THEN IsoWeeksInYear(date.y - 1)
       ELSE IF w > IsoWeeksInYear(date.y) THEN 1
       ELSE w

\* strings are sequences of character codes: '0' is 48, '-' is 45, 'Q' is
\* 81 and 'W' is 87
\* a number written with a fixed count of digits, zero-padded
RECURSIVE Digits(_, _)
Digits(n, width) ==
    IF width = 0 THEN << >>
    ELSE Append(Digits(n \div 10, width - 1), 48 + (n % 10))

\* the format string of each timeframe, as its tokens
getDateFormatForTimeframe(timeframe) ==
    CASE timeframe = "daily" -> << "YYYY", "-", "MM", "-", "DD" >>
      [] timeframe = "weekly" -> << "YYYY", "-", "[W]", "WW" >>
      [] timeframe = "monthly" -> << "YYYY", "-", "MM" >>
      [] timeframe = "quarterly" -> << "YYYY", "-", "[Q]", "Q" >>
      [] timeframe = "yearly" -> << "YYYY" >>
      [] OTHER -> << "YYYY", "-", "MM", "-", "DD" >>

FormatToken(date, token) ==
    CASE token = "YYYY" -> Digits(date.y, 4)
      [] token = "MM" -> Digits(date.m, 2)
      [] token = "DD" -> Digits(date.d, 2)
      [] token = "WW" -> Digits(IsoWeek(date), 2)
      [] token = "Q" -> Digits(((date.m - 1) \div 3) + 1, 1)
      [] token = "-" -> << 45 >>
      [] token = "[W]" -> << 87 >>
      [] token = "[Q]" -> << 81 >>

\* moment(date).format(dateFormat)
RECURSIVE FormatDate(_, _)
FormatDate(date, tokens) ==
    IF tokens = << >> THEN << >>
    ELSE FormatToken(date, Head(tokens)) \o FormatDate(date, Tail(tokens))

\* a <= b for strings, by code units
RECURSIVE StringLeq(_, _)
StringLeq(a, b) ==
    IF a = << >> THEN TRUE
    ELSE IF b = << >> THEN FALSE
    ELSE IF Head(a) # Head(b) THEN Head(a) < Head(b)
    ELSE StringLeq(Tail(a), Tail(b))

\* Array.prototype.sort() on a set of distinct strings
RECURSIVE SortStrings(_)
SortStrings(keys) ==
    IF keys = {} THEN << >>
    ELSE LET least == CHOOSE k \in keys : \A other \in keys : StringLeq(k, other)
         IN << least >> \o SortStrings(keys \ {least})

\* timelineData: for each period key, the items that fall in it, in order
\* the new item put in front of its bucket
unshiftItem(timelineData, date, item) ==
    [ key \in DOMAIN timelineData \cup {date} |->
        IF key # date THEN timelineData[key]
        ELSE IF date \in DOMAIN timelineData THEN << item >> \o timelineData[date]
        ELSE << item >> ]

\* if (!timelineData[date]) timelineData[date] = []; timelineData[date].push(item)
pushItem(timelineData, date, item) ==
    [ key \in DOMAIN timelineData \cup {date} |->
        IF key # date THEN timelineData[key]
        ELSE IF date \in DOMAIN timelineData THEN Append(timelineData[date], item)
        ELSE << item >> ]

\* data.forEach from item k on, timelineData being what the items before it
\* have built
RECURSIVE forEachItem(_, _, _, _)
forEachItem(items, dateFormat, k, timelineData) ==
    IF k > Len(items) THEN timelineData
    ELSE forEachItem(items, dateFormat, k + 1,
                     pushItem(timelineData, FormatDate(items[k].date, dateFormat), items[k]))

\* the object returned is a function from the period keys to the buckets
generateTimelineData(items, timeframe) ==
    forEachItem(items, getDateFormatForTimeframe(timeframe), 1, << >>)

formatTimelineData(timelineData) ==
    LET sortedDates == SortStrings(DOMAIN timelineData)
    IN [ labels |-> sortedDates,
         total |-> [k \in 1..Len(sortedDates) |-> Len(timelineData[sortedDates[k]])],
         active |-> [k \in 1..Len(sortedDates) |->
                       Len(SelectSeq(timelineData[sortedDates[k]],
                                     LAMBDA item : item.status = "Active"))] ]

Timeframes == {"daily", "weekly", "monthly", "quarterly", "yearly"}

\* the years from 2024 on
Years == 2024..(2024 + MaxYears - 1)

\* the first, the middle and the last days of every month
CalendarDates ==
    { date \in [y : Years, m : 1..12, d : {1, 15, 28, 29, 30, 31}] :
        date.d <= DaysInMonth(date.y, date.m) }

\* a is not after b
DateLeq(a, b) ==
    \/ a.y < b.y
    \/ a.y = b.y /\ a.m < b.m
    \/ a.y = b.y /\ a.m = b.m /\ a.d <= b.d

\* generateTimelineData on two items, the first dated no later than the
\* second, followed by formatTimelineData
GenerateTimelineData ==
    /\ calcArgs.op = "generateTimelineData"
    /\ LET items == << [date |-> calcArgs.first, status |-> "Active"],
                       [date |-> calcArgs.second, status |-> "Completed"] >>
           timelineData == generateTimelineData(items, calcArgs.timeframe)
           dateFormat == getDateFormatForTimeframe(calcArgs.timeframe)
       IN lastCalc' = [op |-> calcArgs.op, timeframe |-> calcArgs.timeframe,
                       first |-> calcArgs.first, second |-> calcArgs.second,
                       keys |-> << FormatDate(calcArgs.first, dateFormat),
                                   FormatDate(calcArgs.second, dateFormat) >>,
                       out |-> formatTimelineData(timelineData)]
    /\ UNCHANGED <<dashVars, filterVars, calcArgs, auxVars>>

\* one specification per group of calls: the arguments are drawn by the
\* initial predicate and the actions make the calls
InitCalls(inputs) ==
    /\ InitDashboard
    /\ calcArgs \in inputs
    /\ lastCalc = [op |-> "none"]

DateFilterCalls ==
    { [op |-> op, date |-> t, start |-> start, end |-> end] :
        op \in {"filterDataByDateRange", "createDateRangeFilter"},
        t \in Instants, start \in Instants, end \in Instants }

SpecDateFilter ==
    InitCalls(DateFilterCalls) /\ [][FilterDataByDateRange \/ CreateDateRangeFilter]_vars

RiskCalls ==
    { [op |-> "calculateProjectRiskScore", project |-> project] : project \in RiskProjects }
    \cup { [op |-> "calculateRiskMetrics", projects |-> projects] :
             projects \in SeqsOf(RiskSamples) }

SpecRisk ==
    InitCalls(RiskCalls) /\ [][CalculateProjectRiskScore \/ CalculateRiskMetrics]_vars

FillForwardCalls ==
    { [op |-> "interpolateMissingValues", data |-> sparse, timeSlots |-> timeSlots] :
        sparse \in SparseSeries, timeSlots \in TimeSlotLists }

SpecFillForward == InitCalls(FillForwardCalls) /\ [][InterpolateMissingValues]_vars

PlanningCalls ==
    { [op |-> op, projects |-> projects, range |-> range] :
        op \in {"calculateTurnaroundTimes", "calculateStatusOverview", "processPlanningMetrics"},
        projects \in SeqsOf(PlanningRecords) \cup { << >> }, range \in Ranges }

SpecPlanning ==
    InitCalls(PlanningCalls)
        /\ [][CalculateTurnaroundTimes \/ CalculateStatusOverview \/ ProcessPlanningMetrics]_vars

GeographicCalls ==
    { [op |-> "processGeographicData", projects |-> projects] :
        projects \in SeqsOf(GeoRecords) \cup { << >> } }

SpecGeographic == InitCalls(GeographicCalls) /\ [][ProcessGeographicData]_vars

TimelineCalls ==
    { [op |-> "generateTimelineData", timeframe |-> timeframe,
       first |-> pair[1], second |-> pair[2]] :
        timeframe \in Timeframes,
        pair \in { p \in CalendarDates \X CalendarDates : DateLeq(p[1], p[2]) } }

SpecTimeline == InitCalls(TimelineCalls) /\ [][GenerateTimelineData]_vars

\* ----------------------------------------------------------- DataValidator
requiredFields == << "id", "name", "startDate", "status", "region" >>

\* what a property of a row can hold: nothing ("absent": the property is
\* undefined), null, the empty string, the number 0, a well-formed value, or
\* ("garbage") a non-empty string that is neither a date nor a number
Truthy(v) == v \in {"value", "garbage"}

\* moment(v).isValid() and !isNaN(parseFloat(v)) for a truthy v
WellFormed(v) == v = "value"

\* requiredFields.forEach(field => { if (!project[field]) errors.push(...) })
MissingFields(project) ==
    SelectSeq(requiredFields, LAMBDA field : ~Truthy(project[field]))

validateProjectData(project) ==
    LET missing == [k \in 1..Len(MissingFields(project)) |->
                      [text |-> "Missing required field",
                       field |-> MissingFields(project)[k]]]
        startDate == IF Truthy(project.startDate) /\ ~WellFormed(project.startDate)
                     THEN << [text |-> "Invalid start date"] >> ELSE << >>
        endDate == IF Truthy(project.endDate) /\ ~WellFormed(project.endDate)
                   THEN << [text |-> "Invalid end date"] >> ELSE << >>
        budget == IF Truthy(project.budget) /\ ~WellFormed(project.budget)
                  THEN << [text |-> "Invalid budget value"] >> ELSE << >>
        errors == missing \o startDate \o endDate \o budget
    IN [isValid |-> Len(errors) = 0, errors |-> errors]

\* rows as XLSX.utils.sheet_to_json hands them over: an id is a number or a
\* string, the other required cells are strings, dates and budgets may be
\* malformed
ProjectRows ==
    [ id : {"absent", "null", "empty", "zero", "value"},
      name : {"absent", "empty", "value"},
      startDate : {"absent", "null", "empty", "value", "garbage"},
      status : {"absent", "empty", "value"},
      region : {"absent", "empty", "value"},
      endDate : {"absent", "value", "garbage"},
      budget : {"absent", "zero", "value", "garbage"} ]

ValidateProjectData ==
    /\ calcArgs.op = "validateProjectData"
    /\ lastCalc' = [op |-> calcArgs.op, project |-> calcArgs.project,
                    out |-> validateProjectData(calcArgs.project)]
    /\ UNCHANGED <<dashVars, filterVars, calcArgs, auxVars>>

ValidatorCalls ==
    { [op |-> "validateProjectData", project |-> project] : project \in ProjectRows }

SpecValidator == InitCalls(ValidatorCalls) /\ [][ValidateProjectData]_vars

\* ------------------------------------------- timeframe and the timeline
\* The projectVolume timeline of the held bundle, modelled apart from the
\* refresh cycle: the rows carry calendar dates and all lie in the date range.
TimelineDates ==
    { [y |-> 2024, m |-> 1, d |-> 15], [y |-> 2024, m |-> 2, d |-> 15],
      [y |-> 2024, m |-> 5, d |-> 1] }

TimelineRows == { [date |-> date, status |-> st] : date \in TimelineDates, st \in {"Active"} }

\* loadData with both fetches fulfilled, as far as the timeline goes:
\* processData -> calculateProjectVolume -> generateTimelineData under the
\* timeframe in force, then updateDashboard -> updateProjectVolumeChart
LoadTimeline(projects) ==
    /\ heldProjects' = Rows(projects)
    /\ timeline' = [tag |-> "timeline",
                    groups |-> generateTimelineData(projects, currentTimeframe)]
    /\ chartLabels' = formatTimelineData(timeline'.groups).labels
    /\ UNCHANGED currentTimeframe
    /\ UNCHANGED besideTimeframe

\* the change handler of #timeframe-select: the field is set and
\* updateDashboard renders the bundle that is held
TimeframeChange(value) ==
    /\ currentTimeframe' = value
    /\ chartLabels' = IF Falsy(timeline) THEN chartLabels
                      ELSE formatTimelineData(timeline.groups).labels
    /\ UNCHANGED <<heldProjects, timeline>>
    /\ UNCHANGED besideTimeframe

NextTimeframe ==
    \/ \E projects \in SeqsOf(TimelineRows) : LoadTimeline(projects)
    \/ \E value \in Timeframes : TimeframeChange(value)

SpecTimeframe == Init /\ [][NextTimeframe]_vars

\* -------------------------------------------------- grouping by period
\* dates in one month, in two months of a quarter, in another quarter and in
\* another year
GroupingDates ==
    { [y |-> 2024, m |-> 1, d |-> 15], [y |-> 2024, m |-> 1, d |-> 28],
      [y |-> 2024, m |-> 2, d |-> 15], [y |-> 2024, m |-> 5, d |-> 1],
      [y |-> 2025, m |-> 1, d |-> 15] }

\* rows numbered by their place in the collection
NumberedRows(dates) == [k \in 1..Len(dates) |-> [id |-> k, date |-> dates[k]]]

GroupByPeriod ==
    /\ calcArgs.op = "groupByPeriod"
    /\ lastCalc' = [op |-> calcArgs.op, items |-> calcArgs.items,
                    timeframe |-> calcArgs.timeframe,
                    out |-> generateTimelineData(calcArgs.items, calcArgs.timeframe)]
    /\ UNCHANGED <<dashVars, filterVars, calcArgs, auxVars>>

GroupingCalls ==
    { [op |-> "groupByPeriod", items |-> NumberedRows(dates), timeframe |-> timeframe] :
        dates \in SeqsOf(GroupingDates) \cup { << >> }, timeframe \in Timeframes }

SpecGrouping == InitCalls(GroupingCalls) /\ [][GroupByPeriod]_vars

\* ------------------------------------------------------- retryOperation
\* results and errors an operation can settle with
OperationValues == {"v1", "v2"}
OperationErrors == {"e1", "e2"}
RetryDelays == {0, 100, 1000}

\* the same delay before every further attempt
backoffConstant(delay, attempt) == delay

\* setTimeout(resolve, delay * attempt)
backoff(delay, attempt) == delay * attempt

\* the loop head and the try block: operation() is invoked when
\* attempt <= maxRetries, otherwise the loop ends and the function returns
\* undefined
EnterLoop(frame) ==
    IF frame.attempt <= frame.maxRetries
    THEN /\ retryFrame' = [frame EXCEPT !.phase = "awaiting"]
         /\ operationCalls' = Append(operationCalls, Pending)
    ELSE /\ retryFrame' = [frame EXCEPT !.phase = "returned", !.result = Undefined]
         /\ UNCHANGED operationCalls

\* retryOperation(operation, maxRetries, delay) is called
RetryOperation(maxRetries, delay) ==
    /\ retryFrame.phase = "idle"
    /\ EnterLoop([phase |-> "idle", maxRetries |-> maxRetries, delay |-> delay,
                  attempt |-> 1, result |-> Undefined])
    /\ UNCHANGED timeouts
    /\ UNCHANGED besideRetry

\* the awaited operation fulfils: return await operation()
OperationFulfils(value) ==
    /\ retryFrame.phase = "awaiting"
    /\ operationCalls' = [operationCalls EXCEPT ![Len(operationCalls)] = [tag |-> "value", v |-> value]]
    /\ retryFrame' = [retryFrame EXCEPT !.phase = "returned", !.result = [tag |-> "value", v |-> value]]
    /\ UNCHANGED timeouts
    /\ UNCHANGED besideRetry

\* the awaited operation rejects: the catch block rethrows on the last
\* attempt and otherwise sets the timer
OperationRejects(error) ==
    /\ retryFrame.phase = "awaiting"
    /\ operationCalls' = [operationCalls EXCEPT ![Len(operationCalls)] = [tag |-> "error", e |-> error]]
    /\ IF retryFrame.attempt = retryFrame.maxRetries
       THEN /\ retryFrame' = [retryFrame EXCEPT !.phase = "thrown",
                                                !.result = [tag |-> "error", e |-> error]]
            /\ UNCHANGED timeouts
       ELSE /\ retryFrame' = [retryFrame EXCEPT !.phase = "sleeping"]
            /\ timeouts' = Append(timeouts, backoff(retryFrame.delay, retryFrame.attempt))
    /\ UNCHANGED besideRetry

\* the timer fires: attempt++ and the loop goes round
TimeoutFires ==
    /\ retryFrame.phase = "sleeping"
    /\ EnterLoop([retryFrame EXCEPT !.attempt = @ + 1])
    /\ UNCHANGED timeouts
    /\ UNCHANGED besideRetry

OperationSettles ==
    \/ \E value \in OperationValues : OperationFulfils(value)
    \/ \E error \in OperationErrors : OperationRejects(error)

NextRetry ==
    \/ \E maxRetries \in 0..MaxRetries, delay \in RetryDelays : RetryOperation(maxRetries, delay)
    \/ OperationSettles
    \/ TimeoutFires

\* every operation settles and every timer fires
SpecRetry ==
    Init /\ [][NextRetry]_vars /\ WF_vars(OperationSettles) /\ WF_vars(TimeoutFires)

\* ------------------------------------------------------- DashboardState
\* the callbacks handed to subscribe: three that only take note of the two
\* states and one that calls its own unsubscribe function when it is notified
Callbacks == {"a", "b", "c", "once"}

Partials ==
    { [timeframe |-> "weekly"], [timeframe |-> "monthly"], [currentTab |-> "quality"],
      [currentTab |-> "planning", timeframe |-> "yearly"] }

Entries(subs) == { subs[k] : k \in 1..Len(subs) }

\* { ...this.state, ...partial }
Spread(current, partial) ==
    [ key \in DOMAIN current \cup DOMAIN partial |->
        IF key \in DOMAIN partial THEN partial[key] ELSE current[key] ]

\* an array push in place of Set.prototype.add
listPush(subs, callback) == Append(subs, callback)

\* Set.prototype.add: a value already in the Set keeps its place
setAdd(subs, callback) ==
    IF callback \in Entries(subs) THEN subs ELSE Append(subs, callback)

\* Set.prototype.delete
setDelete(subs, callback) == SelectSeq(subs, LAMBDA c : c # callback)

\* this.subscribers.forEach(callback => callback(this.state, oldState)) from
\* entry k of the Set as it stood when the call began; an entry deleted
\* before its turn is passed over
RECURSIVE notifySubscribers(_, _, _, _, _)
notifySubscribers(order, k, newState, oldState, acc) ==
    IF k > Len(order) THEN acc
    ELSE IF order[k] \notin Entries(acc.subscribers)
    THEN notifySubscribers(order, k + 1, newState, oldState, acc)
    ELSE LET callback == order[k]
             called == [acc EXCEPT !.calls = Append(@, [callback |-> callback,
                                                         state |-> newState,
                                                         oldState |-> oldState])]
         IN IF callback = "once"
            THEN notifySubscribers(order, k + 1, newState, oldState,
                     [called EXCEPT !.subscribers = setDelete(@, callback),
                                    !.released = @ \cup {callback}])
            ELSE notifySubscribers(order, k + 1, newState, oldState, called)

\* updateState(partial)
UpdateState(partial) ==
    LET oldState == dashboardState
        newState == Spread(dashboardState, partial)
        done == notifySubscribers(subscribers, 1, newState, oldState,
                    [calls |-> << >>, subscribers |-> subscribers,
                     released |-> released])
    IN /\ dashboardState' = newState
       /\ subscribers' = done.subscribers
       /\ released' = done.released
       /\ notified' = [op |-> "updateState", calls |-> done.calls,
                       oldState |-> oldState, subscribed |-> Entries(subscribers),
                       released |-> released]
       /\ UNCHANGED besideState

\* subscribe(callback)
Subscribe(callback) ==
    /\ Len(subscribers) < MaxSubs
    /\ subscribers' = setAdd(subscribers, callback)
    /\ released' = released \ {callback}
    /\ notified' = [op |-> "none"]
    /\ UNCHANGED dashboardState
    /\ UNCHANGED besideState

\* a function returned by subscribe(callback) is called
Unsubscribe(callback) ==
    /\ callback \in Entries(subscribers) \cup released
    /\ subscribers' = setDelete(subscribers, callback)
    /\ released' = released \cup {callback}
    /\ notified' = [op |-> "none"]
    /\ UNCHANGED dashboardState
    /\ UNCHANGED besideState

NextState ==
    \/ \E partial \in Partials : UpdateState(partial)
    \/ \E callback \in Callbacks : Subscribe(callback)
    \/ \E callback \in Callbacks : Unsubscribe(callback)

SpecState == Init /\ [][NextState]_vars

\* ------------------------------------------------------------- debounce
Waits == {1, 2}
CallArgs == {"x", "y"}

\* a clearTimeout that leaves the timer running
keepTimeout(pending, id) == pending

\* clearTimeout(id): the timer with that id, if it is still pending, will not
\* fire; an undefined id clears nothing
clearTimeout(pending, id) ==
    IF Falsy(id) THEN pending ELSE { t \in pending : t.id # id.id }

\* debounce(func, wait)
Debounce(wait) ==
    /\ Falsy(debounced)
    /\ debounced' = [tag |-> "function", wait |-> wait]
    /\ ran' = [op |-> "none"]
    /\ UNCHANGED <<timeout, pendingTimeouts, clock, burst>>
    /\ UNCHANGED besideDebounce

\* executedFunction(...args): clearTimeout(timeout); timeout = setTimeout(later, wait)
ExecutedFunction(args) ==
    /\ ~Falsy(debounced)
    /\ burst.seq < MaxCalls
    /\ LET id == burst.seq + 1
       IN /\ pendingTimeouts' = clearTimeout(pendingTimeouts, timeout)
                                   \cup { [id |-> id, due |-> clock + debounced.wait,
                                           args |-> args] }
          /\ timeout' = [tag |-> "id", id |-> id]
          /\ burst' = [seq |-> id, args |-> args, at |-> clock, served |-> burst.served]
    /\ ran' = [op |-> "none"]
    /\ UNCHANGED <<debounced, clock>>
    /\ UNCHANGED besideDebounce

\* a timer that is due fires and runs later(): clearTimeout(timeout);
\* func(...args), args being those of the call that set the timer
Later(t) ==
    /\ t \in pendingTimeouts
    /\ clock >= t.due
    /\ pendingTimeouts' = clearTimeout(pendingTimeouts \ {t}, timeout)
    /\ ran' = [op |-> "func", args |-> t.args, at |-> clock, call |-> burst]
    /\ burst' = [burst EXCEPT !.served = burst.seq]
    /\ UNCHANGED <<debounced, timeout, clock>>
    /\ UNCHANGED besideDebounce

\* time passes
ClockTick ==
    /\ clock < MaxClock
    /\ clock' = clock + 1
    /\ ran' = [op |-> "none"]
    /\ UNCHANGED <<debounced, timeout, pendingTimeouts, burst>>
    /\ UNCHANGED besideDebounce

NextDebounce ==
    \/ \E wait \in Waits : Debounce(wait)
    \/ \E args \in CallArgs : ExecutedFunction(args)
    \/ \E t \in pendingTimeouts : Later(t)
    \/ ClockTick

SpecDebounce == Init /\ [][NextDebounce]_vars

\* ===================================================================
\* PerformanceMonitor (script.js 930-964)
\* ===================================================================

\* this.maxMetricsLength
maxMetricsLength == 100

\* the operation names that timers are started with: two of the tracked
\* lists, a name this.metrics has no property for, and a name it inherits
\* from Object.prototype
TimedOperations == {"renderTimes", "loadTimes", "exportTimes", "constructor"}

\* names for which this.metrics[name] is truthy without being a list
InheritedOperations == {"constructor"}

\* Array.prototype.pop in place of shift: the newest entry goes
pop(list) == SubSeq(list, 1, Len(list) - 1)

\* Array.prototype.shift: the entry at index 0 goes
shift(list) == Tail(list)

\* endTimer(timer): performance.now() - timer.start is the duration measured,
\* here the ordinal of the timer among those of its operation, so that every
\* entry of a list is told from the others
EndTimer(operation) ==
    LET duration == IF operation \in DOMAIN metrics THEN recorded[operation] + 1 ELSE 1
        pushed == Append(metrics[operation], duration)
    IN /\ operation \in DOMAIN metrics
            => SumOver([list \in DOMAIN recorded |-> recorded[list]]) < MaxEndTimers
       /\ IF operation \in DOMAIN metrics
          THEN /\ metrics' = [metrics EXCEPT ![operation] =
                                 IF Len(pushed) > maxMetricsLength
                                 THEN shift(pushed) ELSE pushed]
               /\ recorded' = [recorded EXCEPT ![operation] = @ + 1]
          ELSE UNCHANGED <<metrics, recorded>>
       /\ lastTimer' = [op |-> "endTimer", operation |-> operation,
                        before |-> metrics,
                        outcome |-> IF operation \in DOMAIN metrics
                                       \/ operation \notin InheritedOperations
                                    THEN [returned |-> duration]
                                    ELSE [threw |-> "TypeError"]]
       /\ UNCHANGED besideMonitor

NextMonitor == \E operation \in TimedOperations : EndTimer(operation)

SpecMonitor == Init /\ [][NextMonitor]_vars

\* ===================================================================
\* Claims
\* ===================================================================

\* the bundle inside a cached value, whichever object was cached
BundleIn(c) == IF c.tag = "data" THEN c.processedData ELSE c

\* C1: at most one loadData is in flight at any time; a refresh click or a
\* timer firing while a loadData is pending starts no second pair of fetches.
AtMostOneRefreshInFlight ==
    [][(RefreshClick \/ TimerFire)
          => /\ InFlight # {} => InFlight' = InFlight
             /\ Cardinality(InFlight') <= Cardinality(InFlight) + 1]_vars

\* C2: when a fetch of a refresh fails while a non-expired cache entry
\* exists, the cached bundle is published with the degraded-mode warning.
CachedBundlePublishedOnFailure ==
    (lastDone.outcome = "rejected" /\ lastDone.cacheUsable)
        => /\ errorText = CachedWarning
           /\ published = BundleIn(loadFromCache(storage, now, FALSE).value)

\* C3: after a refresh whose two fetches succeeded and whose processing
\* completed, the cache holds an entry with the bundle just produced.
CacheWrittenAfterSuccess ==
    lastDone.outcome = "fulfilled"
        => /\ storage.tag = "entry"
           /\ BundleIn(storage.data) = ToJson(ProcessedOf(data))

\* C4: when a fetch of a refresh fails and no valid cache entry exists, a
\* hard failure is reported and rawData, processedData and lastUpdate are
\* as they were when that refresh started.
FailedRefreshLeavesState ==
    (lastDone.outcome = "rejected" /\ ~lastDone.cacheUsable)
        => /\ errorText = LoadError
           /\ lastDone.intact

\* C5: the published bundle is the one computed from the loaded raw records
\* under the currently active date range (a range change recomputes from the
\* held records; it starts no fetch).
PublishedReflectsActiveRange ==
    (~Falsy(published) /\ data.rawData.tag = "raw")
        => published = processData(data.rawData.projectStatus,
                                   data.rawData.issuesReport, dateRange)

\* C6: processData runs for a refresh only when both of its fetches have
\* fulfilled; a refresh with a failed fetch never processes and writes
\* nothing, and rawData never holds the result of only one fetch.
ProcessingOnlyAfterBothFetches ==
    /\ lastDone.outcome = "fulfilled"
          => (lastDone.p = "rows" /\ lastDone.i = "rows" /\ lastDone.processed)
    /\ lastDone.outcome = "rejected"
          => (~lastDone.processed /\ ~lastDone.wrote)
    /\ data.rawData.tag = "raw"
          => /\ data.rawData.projectStatus \in ProjectSets
             /\ data.rawData.issuesReport \in IssueSets

\* C6 witness: a refresh has just been rejected although one of its two
\* fetches had delivered rows
OneFetchFailedAfterOtherSucceeded ==
    /\ lastDone.outcome = "rejected"
    /\ (lastDone.p = "rows" \/ lastDone.i = "rows")

\* a loadFromCache call has just read, without a storage fault, the entry
\* that the last stored saveToCache call wrote
ReadOfStoredEntry == lastCall.op = "get" /\ ~lastCall.fault /\ lastPut # Null

\* C7: an entry written at time T is returned by loadFromCache exactly when
\* its age is below 3600 seconds: still at T+3599s, no longer at T+3600s.
CacheTtlBoundary ==
    ReadOfStoredEntry
        => IF now - lastPut.at < 3600 * 1000
           THEN lastCall.value = ToJson(lastPut.value)
           ELSE lastCall.value = Null

\* C7 witness: a read exactly 3600 seconds after the write finds nothing
ReadAtExactlyOneHour ==
    ReadOfStoredEntry /\ now - lastPut.at = 3600 * 1000 /\ lastCall.value = Null

\* C8: after any sequence of saveToCache calls, a read within the TTL
\* returns the bundle of the most recent call (as JSON writes it), never
\* that of an earlier call.
ReadReturnsMostRecentPut ==
    (lastCall.op = "get" /\ ~lastCall.fault /\ lastAsked # Null
        /\ lastPut # Null /\ now - lastPut.at < 3600 * 1000)
        => lastCall.value = ToJson(lastAsked)

\* C9: a storage fault never escapes saveToCache or loadFromCache;
\* loadFromCache answers null when the read throws or the entry does not
\* parse; a cache call changes nothing but the cache slot, and a write that
\* throws leaves the slot as it was.
CacheFaultsSwallowed ==
    /\ [](lastCall.op \in {"get", "put"} => ~lastCall.escaped)
    /\ []((lastCall.op = "get" /\ (lastCall.fault \/ storage = Garbage))
            => lastCall.value = Null)
    /\ [][lastCall'.op \in {"get", "put"}
            => /\ UNCHANGED <<awsState, listeners, timers, dateRange, data,
                              lastUpdate, isLoading, published, errorText,
                              loads, nextLoad, now>>
               /\ (lastCall'.op = "get" \/ lastCall'.fault) => storage' = storage]_vars

\* C9 witness: loadFromCache has just been called on an unparsable entry
ReadOfUnparsableEntry ==
    lastCall.op = "get" /\ ~lastCall.fault /\ storage = Garbage /\ lastCall.value = Null

\* C10: registration is last-registration-wins per key: adding F1 and then
\* F2 under one key gives the apply() result of adding F2 alone, and there
\* are never more registered predicates than keys added and not removed.
LastRegistrationWins ==
    /\ \A key \in FilterKeys, f1 \in Predicates, f2 \in Predicates :
          apply(addFilter(addFilter(filters, key, f1), key, f2), filterData)
              = apply(addFilter(filters, key, f2), filterData)
    /\ Len(filters) <= Cardinality(liveKeys)

\* C10 witness: a key that held a predicate has just been given another one
KeyRegisteredAgain ==
    /\ lastFilterOp.op = "add"
    /\ lastFilterOp.replaced
    /\ Len(filters) = Cardinality(liveKeys)

\* the indices of the source records that satisfy every predicate of a set
PassingIndices(source, preds) ==
    { n \in 1..Len(source) : \A e \in preds : Holds(e.value, source[n]) }

\* the k-th smallest element of a set of indices
KthIndex(idx, k) == CHOOSE n \in idx : Cardinality({ m \in idx : m < n }) = k - 1

\* C11: after any sequence of addFilter, removeFilter and clearFilters,
\* apply() returns exactly the source records that satisfy every currently
\* registered predicate, in source order; the source is left unchanged; with
\* no predicate registered every record is returned.
ApplyReturnsExactlyTheMatches ==
    /\ filterData = Items
    /\ lastFilterOp.op = "apply"
          => LET idx == PassingIndices(filterData, registered)
             IN /\ Len(applied) = Cardinality(idx)
                /\ \A k \in 1..Len(applied) : applied[k] = filterData[KthIndex(idx, k)]
                /\ registered = {} => applied = filterData

\* C11 witness: apply() has just run with two predicates registered and
\* kept one record of the three
AppliedUnderTwoPredicates ==
    /\ lastFilterOp.op = "apply"
    /\ Cardinality(registered) = 2
    /\ Len(applied) = 1
    /\ Len(filterData) = 3

\* the day an instant lies in
DayOf(t) == t \div HoursPerDay

\* C12: the date-range filter is inclusive on both ends at day granularity:
\* a record passes exactly when the day of its date is on or after the day
\* of start and on or before the day of end.
DateRangeInclusiveByDay ==
    lastCalc.op \in {"filterDataByDateRange", "createDateRangeFilter"}
        => (lastCalc.passes <=> /\ DayOf(lastCalc.start) <= DayOf(lastCalc.date)
                                /\ DayOf(lastCalc.date) <= DayOf(lastCalc.end))

\* C12 witness: a record dated on the end day, at a later hour than the end
\* instant, has passed filterDataByDateRange
PassedLateOnEndDay ==
    /\ lastCalc.op = "filterDataByDateRange"
    /\ DayOf(lastCalc.date) = DayOf(lastCalc.end)
    /\ lastCalc.date > lastCalc.end
    /\ DayOf(lastCalc.start) < DayOf(lastCalc.end)
    /\ lastCalc.passes

\* the entries of a sequence of scores that are >= lo and < hi
InBand(scores, lo, hi) ==
    { k \in 1..Len(scores) : /\ lo * scores[k].den <= scores[k].num
                              /\ scores[k].num < hi * scores[k].den }

\* the entries of a sequence of scores that are below hi
Below(scores, hi) == { k \in 1..Len(scores) : scores[k].num < hi * scores[k].den }

\* C13: the risk bands are closed on their lower side: a record counts as
\* High exactly when its score is >= 75, as Medium exactly when
\* 40 <= score < 75, and as Low otherwise.
RiskBandsClosedBelow ==
    lastCalc.op = "calculateRiskMetrics"
        => /\ lastCalc.out.riskDistribution.high
                 = Len(lastCalc.scores) - Cardinality(Below(lastCalc.scores, 75))
           /\ lastCalc.out.riskDistribution.medium = Cardinality(InBand(lastCalc.scores, 40, 75))
           /\ lastCalc.out.riskDistribution.low = Cardinality(Below(lastCalc.scores, 40))

\* C13 witness: of three projects scoring exactly 75, 74.95 and 39.95 one
\* each is counted High, Medium and Low
BoundaryScoresClassified ==
    /\ lastCalc.op = "calculateRiskMetrics"
    /\ { lastCalc.scores[k] : k \in 1..Len(lastCalc.scores) }
          = { Num(7500, 100), Num(7495, 100), Num(3995, 100) }
    /\ lastCalc.out.riskDistribution = [high |-> 1, medium |-> 1, low |-> 1]

\* C14: the five weights sum to exactly 1.0, and a record whose sub-scores
\* lie in [0, 100] has a combined score in [0, 100].
RiskScoreWithinRange ==
    /\ SumSeq([k \in 1..Len(Factors) |-> Weights[Factors[k]]]) = 100
    /\ DOMAIN Weights = { Factors[k] : k \in 1..Len(Factors) }
    /\ (/\ lastCalc.op = "calculateProjectRiskScore"
        /\ \A f \in DOMAIN lastCalc.project.risk :
              0 <= lastCalc.project.risk[f] /\ lastCalc.project.risk[f] <= 100)
          => /\ 0 <= lastCalc.out.num
             /\ lastCalc.out.num <= 100 * lastCalc.out.den

\* C14 witness: a record with every sub-score at 100 scores exactly 100
AllFactorsAtMaximum ==
    /\ lastCalc.op = "calculateProjectRiskScore"
    /\ lastCalc.project = RiskProject(100, 100, 100, 100, 100)
    /\ lastCalc.out = Num(10000, 100)

\* the slots up to the k-th for which the series has a row
SeenUpTo(sparse, timeSlots, k) ==
    { j \in 1..k : \E n \in 1..Len(sparse) : sparse[n].date = timeSlots[j] }

\* the value of the series at the slot of greatest index in a set
ValueAtLast(sparse, timeSlots, seen) ==
    LET j == CHOOSE i \in seen : \A h \in seen : h <= i
        n == CHOOSE m \in 1..Len(sparse) : sparse[m].date = timeSlots[j]
    IN sparse[n].value

\* C15: fill-forward emits, for each period of the supplied list in order,
\* the last value observed at or before that period, or 0 if none has been
\* seen yet; the output has one entry per supplied period; over P1..P5 with
\* values only at P1 = 10 and P4 = 20 it yields 10, 10, 10, 20, 20.
FillForwardCarriesLastValue ==
    lastCalc.op = "interpolateMissingValues"
        => LET sparse == lastCalc.data
               timeSlots == lastCalc.timeSlots
               out == lastCalc.out
           IN /\ Len(out) = Len(timeSlots)
              /\ \A k \in 1..Len(timeSlots) :
                    /\ out[k].date = timeSlots[k]
                    /\ out[k].value =
                          IF SeenUpTo(sparse, timeSlots, k) = {} THEN 0
                          ELSE ValueAtLast(sparse, timeSlots, SeenUpTo(sparse, timeSlots, k))
              /\ (/\ timeSlots = << 1, 2, 3, 4, 5 >>
                  /\ sparse = << [date |-> 1, value |-> 10], [date |-> 4, value |-> 20] >>)
                    => [k \in 1..5 |-> out[k].value] = << 10, 10, 10, 20, 20 >>

\* C15 witness: the series with values only at P1 and P4 has been filled
\* over P1..P5
FilledP1ToP5 ==
    /\ lastCalc.op = "interpolateMissingValues"
    /\ lastCalc.timeSlots = << 1, 2, 3, 4, 5 >>
    /\ lastCalc.data = << [date |-> 1, value |-> 10], [date |-> 4, value |-> 20] >>
    /\ Len(lastCalc.out) = 5
    /\ lastCalc.out[3].value = 10
    /\ lastCalc.out[5].value = 20

\* the records of a sequence that have a given status
WithStatus(projects, st) == { k \in 1..Len(projects) : projects[k].status = st }

\* the signal the metric engine is to give for an undefined metric
UndefinedMetric == [tag |-> "UndefinedMetric"]

\* C16: for an input with no Completed project, turnaroundTimes returns an
\* explicit UndefinedMetric marker for the average, not NaN and not zero.
TurnaroundUndefinedWithoutCompleted ==
    (lastCalc.op = "calculateTurnaroundTimes" /\ WithStatus(lastCalc.projects, "Completed") = {})
        => /\ lastCalc.out.average # NaN
           /\ lastCalc.out.average # Num(0, 1)
           /\ lastCalc.out.average = UndefinedMetric

\* C17: for every non-empty record sequence, statusOverview emits one count
\* per distinct observed status, the counts sum to the number of records,
\* and the per-status percentages sum to 100.
StatusSharesSumToHundred ==
    (lastCalc.op = "calculateStatusOverview" /\ lastCalc.projects # << >>)
        => LET projects == lastCalc.projects
               counts == lastCalc.out.counts
               percentages == lastCalc.out.percentages
           IN /\ DOMAIN counts = { projects[k].status : k \in 1..Len(projects) }
              /\ \A st \in DOMAIN counts : counts[st] >= 1
              /\ SumOver(counts) = Len(projects)
              /\ DOMAIN percentages = DOMAIN counts
              /\ \A st \in DOMAIN percentages : percentages[st].den = Len(projects)
              /\ SumOver([st \in DOMAIN percentages |-> percentages[st].num])
                    = 100 * Len(projects)

\* C17 witness: three records with two distinct statuses, one of them
\* holding a third of the records
ThirdsAndTwoThirds ==
    /\ lastCalc.op = "calculateStatusOverview"
    /\ Len(lastCalc.projects) = 3
    /\ Cardinality(DOMAIN lastCalc.out.counts) = 2
    /\ \E st \in DOMAIN lastCalc.out.percentages :
          lastCalc.out.percentages[st] = Num(100, 3)

\* every record of a sequence lies in a date range, by day
AllInRange(projects, range) ==
    \A k \in 1..Len(projects) :
        /\ DayOf(range.start) <= DayOf(projects[k].date)
        /\ DayOf(projects[k].date) <= DayOf(range.end)

\* C18: for records all inside the active date range, projectVolume returns
\* total = number of records, active = number with status Active,
\* completed = number with status Completed, and turnaroundTimes.average is
\* the arithmetic mean of completionDate - startDate in days over exactly
\* the Completed records.
PlanningCountsAndMean ==
    (lastCalc.op = "processPlanningMetrics" /\ AllInRange(lastCalc.projects, lastCalc.range))
        => LET projects == lastCalc.projects
               done == WithStatus(projects, "Completed")
               days == [k \in 1..Len(projects) |->
                          IF k \in done
                          THEN (projects[k].completionDate - projects[k].startDate)
                                   \div HoursPerDay
                          ELSE 0]
               average == lastCalc.out.turnaroundTimes.average
           IN /\ lastCalc.out.projectVolume.total = Len(projects)
              /\ lastCalc.out.projectVolume.active
                    = Cardinality(WithStatus(projects, "Active"))
              /\ lastCalc.out.projectVolume.completed = Cardinality(done)
              /\ done # {} => /\ average.tag = "num"
                              /\ average.num * Cardinality(done) = SumSeq(days) * average.den

\* C18 witness: three records in range, two of them Completed after 1 and
\* 2 days, with an average of 3/2
TwoCompletedOneActive ==
    /\ lastCalc.op = "processPlanningMetrics"
    /\ AllInRange(lastCalc.projects, lastCalc.range)
    /\ lastCalc.out.projectVolume = [total |-> 3, active |-> 1, completed |-> 2]
    /\ lastCalc.out.turnaroundTimes.average = Num(3, 2)

\* the planned budget of the rows of a region, summed
PlannedBudgetOf(projects, region) ==
    SumSeq([k \in 1..Len(projects) |->
              IF projects[k].region = region /\ projects[k].plannedBudget.tag = "int"
              THEN projects[k].plannedBudget.v ELSE 0])

\* C19: in the geographic metric, a region whose planned budget totals zero
\* gets an explicit UndefinedMetric signal for budgetVariance rather than
\* NaN or an infinity, and every emitted region has projectVolume >= 1, so
\* that successRate and onTimeRate are defined.
ZeroBudgetRegionSignalled ==
    lastCalc.op = "processGeographicData"
        => \A k \in 1..Len(lastCalc.out) :
              LET entry == lastCalc.out[k]
              IN /\ entry.projectVolume >= 1
                 /\ entry.successRate.tag = "num"
                 /\ entry.onTimeRate.tag = "num"
                 /\ PlannedBudgetOf(lastCalc.projects, entry.region) = 0
                       => /\ entry.budgetVariance.tag \notin {"NaN", "Infinity"}
                          /\ entry.budgetVariance = UndefinedMetric

\* C20: for every granularity the period key is a function of the date that
\* preserves order: for dates d1 <= d2, key(d1) <= key(d2) as strings, so
\* that the keys sorted as strings are in chronological order, also across
\* the ISO weeks that straddle a year boundary.
PeriodKeysOrderPreserving ==
    lastCalc.op = "generateTimelineData"
        => /\ StringLeq(lastCalc.keys[1], lastCalc.keys[2])
           /\ lastCalc.out.labels[1] = lastCalc.keys[1]
           /\ lastCalc.out.labels[Len(lastCalc.out.labels)] = lastCalc.keys[2]

\* a required field the row lacks: the property is undefined, null or an
\* empty cell
Lacks(project, field) == project[field] \in {"absent", "null", "empty"}

\* the reasons of a result that name a field as missing
MissingReasonsFor(out, field) ==
    { k \in 1..Len(out.errors) :
        out.errors[k] = [text |-> "Missing required field", field |-> field] }

\* C21: validateProjectData returns one 'missing required field' reason for
\* each of id, name, startDate, status, region that the record lacks (and
\* none for a field it has), reports isValid = true if and only if the list
\* of reasons is empty, and reports a record valid whose five required
\* fields are present with valid values (its optional fields being absent or
\* valid).
ValidationCollectsReasons ==
    lastCalc.op = "validateProjectData"
        => LET project == lastCalc.project
               out == lastCalc.out
           IN /\ \A k \in 1..Len(requiredFields) :
                    Cardinality(MissingReasonsFor(out, requiredFields[k]))
                        = IF Lacks(project, requiredFields[k]) THEN 1 ELSE 0
              /\ out.isValid <=> out.errors = << >>
              /\ ( /\ \A k \in 1..Len(requiredFields) :
                         /\ ~Lacks(project, requiredFields[k])
                         /\ project[requiredFields[k]] # "garbage"
                   /\ project.endDate # "garbage"
                   /\ project.budget # "garbage" )
                     => out.isValid

\* the invocations started after r whose bundle has already been installed
InstalledAfter(r) == { r2 \in LoadIds : r2 > r /\ loads[r2] = Settled("fulfilled") }

\* C22: if two refreshes are in flight at the same time, the bundle that
\* ends up held and published is the one of the later-started refresh: a
\* refresh that completes after a later-started one has installed its bundle
\* does not replace what is held.
LaterStartedRefreshWins ==
    (lastDone.outcome = "fulfilled" /\ InstalledAfter(lastDone.id) # {})
        => ~lastDone.wrote

\* C23: after each successful refresh, the initial load included, every
\* sub-metric of the bundle is handed to the rendering capability exactly
\* once.
RenderedOncePerRefresh ==
    lastDone.outcome = "fulfilled" => lastDone.renders = 1

\* the period keys of the held rows under a timeframe, sorted
PeriodKeysUnder(timeframe) ==
    SortStrings({ FormatDate(heldProjects.rows[k].date, getDateFormatForTimeframe(timeframe)) :
                    k \in 1..Len(heldProjects.rows) })

\* C24: the published projectVolume timeline is always bucketed by the
\* currently active granularity: its period keys are the keys of the held
\* rows in the key format of the timeframe now selected.
TimelineFollowsTimeframe ==
    ~Falsy(heldProjects) => chartLabels = PeriodKeysUnder(currentTimeframe)

\* the places of a bucket at which a row stands
PlacesIn(bucket, item) == { j \in 1..Len(bucket) : bucket[j] = item }

\* C25: timeline grouping is a stable partition: every input record appears
\* in exactly one bucket, the one for its period key, and once; no bucket is
\* empty; the bucket sizes sum to the number of input records; within each
\* bucket the records keep their original relative order.
GroupingIsStablePartition ==
    lastCalc.op = "groupByPeriod"
        => LET items == lastCalc.items
               out == lastCalc.out
               dateFormat == getDateFormatForTimeframe(lastCalc.timeframe)
           IN /\ \A k \in 1..Len(items) :
                    LET own == FormatDate(items[k].date, dateFormat)
                    IN /\ own \in DOMAIN out
                       /\ Cardinality(PlacesIn(out[own], items[k])) = 1
                       /\ \A key \in DOMAIN out \ {own} : PlacesIn(out[key], items[k]) = {}
              /\ \A key \in DOMAIN out : Len(out[key]) >= 1
              /\ SumOver([key \in DOMAIN out |-> Len(out[key])]) = Len(items)
              /\ \A key \in DOMAIN out :
                    \A i, j \in 1..Len(out[key]) :
                        i < j => out[key][i].id < out[key][j].id

\* C25 witness: three rows in two buckets, the first and the third row
\* sharing a bucket around the second
GroupedAroundAnotherBucket ==
    /\ lastCalc.op = "groupByPeriod"
    /\ Len(lastCalc.items) = 3
    /\ Cardinality(DOMAIN lastCalc.out) = 2
    /\ \E key \in DOMAIN lastCalc.out :
          /\ Len(lastCalc.out[key]) = 2
          /\ lastCalc.out[key][1].id = 1
          /\ lastCalc.out[key][2].id = 3

\* C26: the loading flag covers every in-flight load: whenever at least one
\* loadData or loadInitialData call has started and not yet finished,
\* isLoading is true.
LoadingCoversInFlight ==
    InFlight # {} => isLoading

\* the invocations of operation() that have rejected
FailedCalls == { k \in 1..Len(operationCalls) : operationCalls[k].tag = "error" }

\* what holds of a call of retryOperation at every moment
RetryWithinBudget ==
    LET maxRetries == retryFrame.maxRetries
        calls == Len(operationCalls)
    IN /\ calls <= maxRetries
       \* a fulfilled invocation is the last one, and its value is returned
       /\ \A k \in 1..calls :
             operationCalls[k].tag = "value"
                 => /\ k = calls
                    /\ retryFrame.phase = "returned"
                    /\ retryFrame.result = operationCalls[k]
       /\ retryFrame.phase = "returned" => operationCalls[calls].tag = "value"
       \* one timer of delay * attempt after each failed attempt but the last
       /\ Len(timeouts) = Cardinality(FailedCalls \ {maxRetries})
       /\ \A k \in 1..Len(timeouts) : timeouts[k] = retryFrame.delay * k
       /\ retryFrame.phase = "awaiting" => Len(timeouts) = calls - 1
       \* the error of the last of maxRetries failed attempts is rethrown
       /\ retryFrame.phase = "thrown"
             <=> (calls = maxRetries /\ FailedCalls = 1..maxRetries)
       /\ retryFrame.phase = "thrown" => retryFrame.result = operationCalls[maxRetries]

\* C27: for maxRetries >= 1 retryOperation always terminates: it invokes the
\* operation at most maxRetries times, returns the result of the first
\* successful attempt without a further attempt, waits delay * attempt
\* between a failed attempt and the next one, and after exactly maxRetries
\* failed attempts rethrows the error of the last attempt.
RetryOperationTerminates ==
    /\ []((retryFrame.phase # "idle" /\ retryFrame.maxRetries >= 1) => RetryWithinBudget)
    /\ (retryFrame.phase # "idle" /\ retryFrame.maxRetries >= 1)
          ~> (retryFrame.phase \in {"returned", "thrown"})

\* C27 witness: with maxRetries = 3 two attempts failed, the timers were set
\* to delay and 2 * delay, and the third attempt fulfilled
ThirdAttemptSucceeded ==
    /\ retryFrame.phase = "returned"
    /\ retryFrame.maxRetries = 3
    /\ retryFrame.result.tag = "value"
    /\ Len(operationCalls) = 3
    /\ timeouts = << retryFrame.delay, 2 * retryFrame.delay >>

\* the bundle processData derives from raw records under some date range
DerivedFrom(raw) ==
    { processData(raw.projectStatus, raw.issuesReport, range) :
        range \in Ranges \cup { [start |-> At(1, 12), end |-> At(3, 12)] } }

\* C28: across successful refreshes, failed refreshes and cache fallbacks,
\* rawData and processedData are either both null or both set, and whenever
\* set, processedData is the bundle derived from the currently held rawData.
HeldDataConsistent ==
    \/ Falsy(data.rawData) /\ Falsy(data.processedData)
    \/ /\ ~Falsy(data.rawData)
       /\ ~Falsy(data.processedData)
       /\ data.processedData \in DerivedFrom(data.rawData)

\* the invocations of a callback made by the last updateState
CallsOf(callback) ==
    { k \in 1..Len(notified.calls) : notified.calls[k].callback = callback }

DebounceRunsOncePerBurst ==
    /\ \A t \in pendingTimeouts : t.id = burst.seq
    /\ ran.op = "func"
          => /\ ran.args = ran.call.args
             /\ ran.at >= ran.call.at + debounced.wait
             /\ ran.call.served < ran.call.seq

\* C30 witness: func ran with the arguments of the third call of a burst
\* whose earlier calls had other arguments pending
RanForLastOfThree ==
    /\ ran.op = "func"
    /\ ran.call.seq = 3
    /\ ran.call.served = 0
    /\ ran.args = "y"
    /\ ran.at = ran.call.at + debounced.wait

\* the last n of the durations 1..count, oldest first
MostRecent(count, n) ==
    [k \in 1..(IF count < n THEN count ELSE n) |->
        k + (IF count < n THEN 0 ELSE count - n)]

\* C31: after any sequence of endTimer calls every tracked list holds at
\* most 100 durations, which are the most recently recorded ones in the
\* order they were recorded, and an endTimer call for an operation name that
\* is not tracked leaves every list as it was.
MonitorKeepsRecentHistory ==
    /\ \A list \in TrackedOperations :
          /\ Len(metrics[list]) <= maxMetricsLength
          /\ metrics[list] = MostRecent(recorded[list], maxMetricsLength)
    /\ (lastTimer.op = "endTimer" /\ lastTimer.operation \notin TrackedOperations)
          => metrics = lastTimer.before

\* one list has lost its oldest duration, another holds one, and a timer of
\* an untracked operation has just ended
UntrackedAfterOverflow ==
    /\ lastTimer.op = "endTimer"
    /\ lastTimer.operation = "exportTimes"
    /\ recorded["renderTimes"] = maxMetricsLength + 1
    /\ Head(metrics["renderTimes"]) = 2
    /\ Len(metrics["loadTimes"]) = 1

====
